---- MODULE Spec2Model ----
(***************************************************************************)
(* Image reconciliation of the content-management backend: the TipTap      *)
(* document walkers (utils/tiptap), the storage sync and purge             *)
(* (utils/syncImages.ts) and the content handlers that call them           *)
(* (blog, newsletter and case-study controllers).                          *)
(*                                                                         *)
(* A JavaScript string is a sequence of tokens; a token is a run of        *)
(* characters without "/" (a folder name, a record id, a file name), the   *)
(* separator "/" or one whitespace character " ".                          *)
(***************************************************************************)
EXTENDS Integers, Sequences, FiniteSets, TLC

\* ---------------------------------------------------------------- bounds
NumProcs == 2          \* request slots that may run concurrently
MaxReqs == 3           \* requests the server accepts in one run
SmallMax == 2          \* largest folder of the concurrent scenarios
MaxUploads == 1        \* fresh file names an upload can draw

\* ------------------------------------------------------ program constants
limit == 1000          \* listAllFilesInFolder: page size
chunkSize == 1000      \* removeFiles: paths per remove request

Procs == 1..NumProcs

Min(a, b) == IF a < b THEN a ELSE b

\* ------------------------------------------------------ JavaScript values
Undefined == [ty |-> "undefined"]
Null == [ty |-> "null"]
Num(n) == [ty |-> "number", v |-> n]
Bool(b) == [ty |-> "boolean", v |-> b]
Str(s) == [ty |-> "string", v |-> s]
Arr(items) == [ty |-> "array", items |-> items]

\* TiptapNode: { type?, attrs?, text?, content? }
Node(type, attrs, text, content) ==
  [ty |-> "object", type |-> type, attrs |-> attrs, text |-> text, content |-> content]

\* the attrs object of an image node: { src?, filePath?, alt? }
Attrs(src, filePath, alt) ==
  [ty |-> "object", src |-> src, filePath |-> filePath, alt |-> alt]

\* property read v.f of a non-null value: undefined when v has no own f
Get(v, f) == IF v.ty = "object" /\ f \in DOMAIN v THEN v[f] ELSE Undefined

\* typeof value === 'object' && value !== null
isObject(value) == value.ty \in {"object", "array"}

\* typeof value === 'string'
isString(value) == value.ty = "string"

\* s.trim(): leading and trailing whitespace tokens dropped
RECURSIVE trimStart(_)
trimStart(s) == IF s # <<>> /\ Head(s) = " " THEN trimStart(Tail(s)) ELSE s

RECURSIVE trimEnd(_)
trimEnd(s) ==
  IF s # <<>> /\ s[Len(s)] = " " THEN trimEnd(SubSeq(s, 1, Len(s) - 1)) ELSE s

trim(s) == trimEnd(trimStart(s))

\* JavaScript truthiness of a value (!value is its negation)
Truthy(value) ==
  CASE value.ty \in {"undefined", "null"} -> FALSE
    [] value.ty = "number" -> value.v # 0
    [] value.ty = "string" -> value.v # <<>>
    [] value.ty = "boolean" -> value.v
    [] OTHER -> TRUE

\* s.startsWith(prefix)
startsWith(s, prefix) ==
  Len(prefix) <= Len(s) /\ SubSeq(s, 1, Len(prefix)) = prefix

\* ------------------------------------------------------- utils/tiptap
asNode(value) == IF ~isObject(value) THEN Null ELSE value

\* the children the walkers visit: node.content when it is an array
Children(node) ==
  IF Get(node, "content").ty = "array" THEN Get(node, "content").items ELSE <<>>

RECURSIVE textWalk(_)
RECURSIVE textWalkAll(_)
\* the walk that visits the children before the node itself
textWalkChildrenFirst(node) ==
  textWalkAll(Children(node))
  \o (IF Get(node, "type") = Str(<<"text">>) /\ isString(Get(node, "text"))
        THEN Get(node, "text").v ELSE <<>>)
  \o (IF Get(node, "type") = Str(<<"hardBreak">>) THEN <<"\n">> ELSE <<>>)

textWalk(node) ==
  (IF Get(node, "type") = Str(<<"text">>) /\ isString(Get(node, "text"))
     THEN Get(node, "text").v ELSE <<>>)
  \o (IF Get(node, "type") = Str(<<"hardBreak">>) THEN <<"\n">> ELSE <<>>)
  \o textWalkAll(Children(node))
textWalkAll(nodes) ==
  IF nodes = <<>> THEN <<>> ELSE textWalk(Head(nodes)) \o textWalkAll(Tail(nodes))

\* the walker that takes a string root for its own text
extractPlainTextOfString(doc) ==
  IF isString(doc) THEN doc.v
  ELSE IF asNode(doc) = Null THEN <<>> ELSE textWalk(asNode(doc))

extractPlainTextFromTiptap(doc) ==
  IF asNode(doc) = Null THEN <<>> ELSE textWalk(asNode(doc))

RECURSIVE collectWalk(_)
RECURSIVE collectWalkAll(_)
\* the walk that takes src for the path when filePath is no string
collectWalkSrcFallback(node) ==
  LET attrs == Get(node, "attrs")
      fp == IF isString(Get(attrs, "filePath")) THEN Get(attrs, "filePath")
            ELSE Get(attrs, "src")
  IN (IF /\ Get(node, "type") = Str(<<"image">>) /\ isObject(attrs)
         /\ isString(fp) /\ trim(fp.v) # <<>>
        THEN {fp.v} ELSE {})
     \cup collectWalkAll(Children(node))

\* the walk that adds the trimmed path: filePaths.add(fp.trim())
collectWalkTrimmed(node) ==
  (IF /\ Get(node, "type") = Str(<<"image">>)
      /\ isObject(Get(node, "attrs"))
      /\ isString(Get(Get(node, "attrs"), "filePath"))
      /\ trim(Get(Get(node, "attrs"), "filePath").v) # <<>>
     THEN {trim(Get(Get(node, "attrs"), "filePath").v)} ELSE {})
  \cup collectWalkAll(Children(node))

collectWalk(node) ==
  (IF /\ Get(node, "type") = Str(<<"image">>)
      /\ isObject(Get(node, "attrs"))
      /\ isString(Get(Get(node, "attrs"), "filePath"))
      /\ trim(Get(Get(node, "attrs"), "filePath").v) # <<>>
     THEN {Get(Get(node, "attrs"), "filePath").v} ELSE {})
  \cup collectWalkAll(Children(node))
collectWalkAll(nodes) ==
  IF nodes = <<>> THEN {} ELSE collectWalk(Head(nodes)) \cup collectWalkAll(Tail(nodes))

collectImageFilePaths(doc) ==
  IF asNode(doc) = Null THEN {} ELSE collectWalk(asNode(doc))

\* { src, filePath, alt } of an attrs object, each kept when it is a string
ImageNodeAttrs(attrs) ==
  LET field(f) == IF isString(Get(attrs, f)) THEN Get(attrs, f) ELSE Undefined
  IN Attrs(field("src"), field("filePath"), field("alt"))

RECURSIVE findWalk(_)
RECURSIVE findWalkAll(_)
\* the value of `found` after walk(node), started with found = null
findWalk(node) ==
  IF Get(node, "type") = Str(<<"image">>) /\ isObject(Get(node, "attrs"))
    THEN ImageNodeAttrs(Get(node, "attrs"))
    ELSE findWalkAll(Children(node))
\* the loop without the early return: a later sibling's match replaces an earlier one
findWalkAllLast(nodes) ==
  IF nodes = <<>> THEN Null
  ELSE IF findWalkAll(Tail(nodes)) # Null THEN findWalkAll(Tail(nodes))
  ELSE findWalk(Head(nodes))

findWalkAll(nodes) ==
  IF nodes = <<>> THEN Null
  ELSE IF findWalk(Head(nodes)) # Null THEN findWalk(Head(nodes))
  ELSE findWalkAll(Tail(nodes))

findFirstImageAttrs(doc) ==
  IF asNode(doc) = Null THEN Null ELSE findWalk(asNode(doc))

\* ------------------------------------------------------- content kinds
Kinds == {"newsletter", "blog", "caseStudy"}
Ids == {"r1", "r2"}

\* utils/syncImages.ts folderMap
folderMap ==
  [newsletter |-> "newsletters", blog |-> "blogs", caseStudy |-> "case-studies"]

\* the prefix built from the kind's own name: `${type}/${id}`
getFolderPrefixOfType(type, id) == <<type, "/", id>>

getFolderPrefix(type, id) == <<folderMap[type], "/", id>>

Prefixes == {getFolderPrefix(k, id) : k \in Kinds, id \in Ids}

\* ------------------------------------------------- the object store
\* The bucket holds, per folder, the set of its objects; object n has the
\* file name ToString(n), and a listing returns a folder's entries in the
\* order of n.
MaxIdx == 2 * limit + 1 + MaxUploads

NameOf(n) == ToString(n)

\* `${folderPrefix}/${name}`
PathOf(prefix, name) == prefix \o <<"/", name>>

\* the objects an upload can create
UploadIdx == (MaxIdx - MaxUploads + 1)..MaxIdx

Iota == [n \in 1..MaxIdx |-> n]

\* the entries of a folder, as the provider orders them
Entries(folder) == SelectSeq(Iota, LAMBDA n : n \in folder)

\* storage.list(prefix, {limit, offset}): the names of one page
ListPage(folder, lim, off) ==
  LET all == Entries(folder)
      last == Min(off + lim, Len(all))
  IN [k \in 1..(IF last > off THEN last - off ELSE 0) |-> NameOf(all[off + k])]

\* storage.remove(paths): the folder after the request
RemoveFrom(prefix, folder, chunk) ==
  LET gone == {chunk[k] : k \in 1..Len(chunk)}
  IN {n \in folder : PathOf(prefix, NameOf(n)) \notin gone}

ProviderMsgs == {"timeout", "denied"}

\* the error without the provider's message
ListErrorBare(msg) == [message |-> <<"Storage list failed">>]

\* new Error(`Storage list failed: ${error.message}`)
ListError(msg) == [message |-> <<"Storage list failed: ", msg>>]

\* new Error(`Storage delete failed: ${error.message}`)
DeleteError(msg) == [message |-> <<"Storage delete failed: ", msg>>]

\* the filter with its test inverted: allFiles.filter((p) => referenced.has(p))
UnreferencedInverted(allFiles, refs) == SelectSeq(allFiles, LAMBDA f : f \in refs)

\* allFiles.filter((p) => !referenced.has(p))
Unreferenced(allFiles, refs) == SelectSeq(allFiles, LAMBDA f : f \notin refs)

\* the slice without its end: paths.slice(i)
ChunkRest(files, i) == SubSeq(files, i + 1, Len(files))

\* paths.slice(i, i + chunkSize)
Chunk(files, i) == SubSeq(files, i + 1, Min(i + chunkSize, Len(files)))

\* ------------------------------------------------------- documents
Text(s) == Node(Str(<<"text">>), Undefined, Str(s), Undefined)
Para(items) == Node(Str(<<"paragraph">>), Undefined, Undefined, Arr(items))
Doc(items) == Node(Str(<<"doc">>), Undefined, Undefined, Arr(items))
Image(attrs) == Node(Str(<<"image">>), attrs, Undefined, Undefined)

\* an image node as the editor writes it after an upload to `path`
Img(path) == Image(Attrs(Str(<<"https://cdn/">> \o path), Str(path), Str(<<"alt">>)))

\* { type: 'doc', content: [] }: the document of a draft
EmptyDoc == Doc(<<>>)

\* the documents an editor saves for the record under `prefix`
BodyDocs(prefix) ==
  LET f(n) == PathOf(prefix, NameOf(n)) IN
  { Doc(<<Para(<<Text(<<"Hi">>)>>), Img(f(1))>>),
    Doc(<<Text(<<"Hi">>), Img(f(2)), Para(<<Img(f(1)), Img(f(2))>>),
          Img(f(limit + 1)), Img(f(MaxIdx))>>) }

\* the documents a caller may pass for the record under `prefix`
Docs(prefix) ==
  LET f(n) == PathOf(prefix, NameOf(n)) IN
  BodyDocs(prefix) \cup
  { Doc(<<Para(<<Text(<<"Hi">>)>>)>>),
    Doc(<<Text(<<"Hi">>), Image(Undefined), Image(Attrs(Str(f(1)), Num(7), Undefined)),
          Image(Attrs(Undefined, Str(<<" ", " ">>), Undefined)),
          Image(Attrs(Undefined, Str(<<" ">> \o f(2)), Undefined))>>) }

\* what a caller may pass as contentJson
Contents(prefix) ==
  Docs(prefix) \cup {Undefined, Null, Num(5), Str(<<"Hi">>), EmptyDoc}

\* what a request body may hold in its content field
BodyContents(prefix) == BodyDocs(prefix) \cup {Undefined, EmptyDoc}

\* { type: 'hardBreak' }
HardBreak == Node(Str(<<"hardBreak">>), Undefined, Undefined, Undefined)

\* what a document may hold as the attrs of an image node
AttrValues ==
  { Undefined, Null, Str(<<"x">>),
    Attrs(Str(<<"s1">>), Str(<<"p1">>), Str(<<"a1">>)),
    Attrs(Str(<<"s2">>), Str(<<"p1">>), Undefined),
    Attrs(Num(3), Num(7), Null),
    Attrs(Str(<<"s3">>), Str(<<" ", " ">>), Str(<<"a3">>)),
    Attrs(Undefined, Str(<<" ", "p2">>), Bool(TRUE)) }

\* nodes without children: text, hard break, a text node whose text is no
\* string, a node without type, a number in the place of a node, image nodes
Leaves ==
  { Text(<<"a">>), Text(<<"b", " ">>), HardBreak,
    Node(Str(<<"text">>), Undefined, Num(5), Undefined),
    Node(Undefined, Undefined, Str(<<"c">>), Undefined),
    Num(5) }
  \cup {Image(a) : a \in AttrValues}

\* nodes with one child: a paragraph, a text node and image nodes with content
Parents(x) ==
  { Para(<<x>>),
    Node(Str(<<"text">>), Undefined, Str(<<"t">>), Arr(<<x>>)),
    Node(Str(<<"image">>), Undefined, Undefined, Arr(<<x>>)),
    Node(Str(<<"image">>), Attrs(Str(<<"s0">>), Str(<<"p0">>), Undefined), Undefined,
         Arr(<<x>>)) }

\* the roots that are no objects
Primitives == {Undefined, Null, Num(5), Num(0), Str(<<"Hi">>), Str(<<>>), Bool(TRUE), Bool(FALSE)}

\* the values the walkers are called with
Trees ==
  Primitives \cup Leaves \cup {Arr(<<x>>) : x \in Leaves}
  \cup {Doc(<<x, y>>) : x \in Leaves, y \in Leaves}
  \cup UNION {{Doc(<<n, y>>), Doc(<<y, n>>)} : n \in UNION {Parents(x) : x \in Leaves},
                                             y \in {Text(<<"a">>), Image(Attrs(Str(<<"s1">>), Str(<<"p1">>), Str(<<"a1">>)))}}

\* ------------------------------------------------------------- state
VARIABLES
  store,        \* the bucket: folder prefix -> set of objects
  db,           \* the content tables: <<kind, id>> -> record or NoRec
  run,          \* the run: its request slots, budget, content kind, users
  pc,           \* where each slot's request stands
  req,          \* the request a slot is serving
  nreq,         \* requests accepted so far
  folderPrefix, \* syncImages.ts locals, per slot
  referenced,
  paths,
  offset,
  toDelete,
  i,
  result,       \* the outcome of the slot's storage operation
  res,          \* the HTTP response of the slot's request
  inflight,     \* storage requests sent and not yet answered
  listLog,      \* the list requests a slot's operation has sent
  removeLog,    \* the remove requests it has sent, with their outcome
  folder0,      \* the folder when the slot's listing began
  stable,       \* no request has changed that folder during the listing
  racing,       \* the slots whose upload was in flight when the listing ended
  reply,        \* the provider's last answer to the slot: <<call, "ok" or message>>
  persisted,    \* the slot's handler has done its database write
  rec,          \* the record the slot's database write returned
  nextIds,      \* record ids the database has not issued yet
  uuids         \* file names uuidv4 has not drawn yet

syncVars == <<folderPrefix, referenced, paths, offset, toDelete, i>>
logVars == <<listLog, removeLog, folder0, stable, racing>>
vars == <<store, db, run, pc, req, nreq, syncVars, result, res, inflight,
          logVars, reply, persisted, rec, nextIds, uuids>>

NoRec == [exists |-> FALSE]
NoReq == [op |-> "none"]
NoResult == [state |-> "none"]
NoRes == [status |-> 0, data |-> NoRec]

NoUser == [userId |-> "", role |-> ""]

\* req.user as the token middleware sets it; NoUser: the request has none
Author == [userId |-> "u1", role |-> "editor"]

Users ==
  { NoUser, Author, [userId |-> "u2", role |-> "editor"],
    [userId |-> "u2", role |-> "admin"] }

Titles == {Undefined, Str(<<" ">>), Str(<<" ", "T">>)}

Statuses == {Undefined, Str(<<"PUBLISHED">>), Str(<<"DRAFT">>)}

\* a body field the handler has not read yet: the model binds the fields of a
\* request body when the handler first reads them
Unread == [ty |-> "unread"]

Request(op, kind, id, user, title, content, status) ==
  [op |-> op, kind |-> kind, id |-> id, user |-> user, title |-> title,
   content |-> content, status |-> status, file |-> FALSE, filePath |-> <<>>]

Record(author, title, content, status) ==
  [exists |-> TRUE, authorId |-> author, title |-> title, content |-> content,
   status |-> status]

\* the ids of the user table, in the order the database issues them
UserIds == <<"u1", "u2", "u3">>

Emails == {"e1", "e2"}
Usernames == {"n1", "n2"}

\* a row of the user table
User(id, email, username, role) ==
  [exists |-> TRUE, id |-> id, email |-> email, username |-> username, role |-> role]

\* the first user that registered: the author of record r1
FirstUser == User("u1", "e1", "n1", "admin")

\* the payloads a token can carry: generateToken({ userId, email, role })
Tokens ==
  {[userId |-> UserIds[n], role |-> r] : n \in 1..Len(UserIds), r \in {"admin", "editor"}}

\* the keys of the content tables and of the user table
Keys == (Kinds \X Ids) \cup {<<"user", UserIds[n]>> : n \in 1..Len(UserIds)}

\* folder sizes around the page size and the chunk size
PagedSizes == {limit - 1, limit, limit + 1, 2 * limit, 2 * limit + 1}

\* The runs on content kind k: one request on a folder of several pages, a
\* few requests one after the other on a small folder, and concurrent
\* requests of the record's author on a small folder.
Scenarios(k) ==
  {[slots |-> {1}, size |-> n, budget |-> 1, users |-> Users, direct |-> FALSE,
     auth |-> FALSE] : n \in PagedSizes}
  \cup {[slots |-> {1}, size |-> n, budget |-> MaxReqs - 1, users |-> Users,
          direct |-> FALSE, auth |-> FALSE] : n \in 0..SmallMax}
  \cup {[slots |-> Procs, size |-> SmallMax,
          budget |-> IF k = "blog" THEN MaxReqs ELSE MaxReqs - 1,
          users |-> {NoUser, Author}, direct |-> FALSE, auth |-> FALSE]}
  \cup {[slots |-> Procs, size |-> 0, budget |-> MaxReqs - 1, users |-> {Author},
          direct |-> FALSE, auth |-> FALSE] : j \in {k} \cap {"caseStudy"}}
  \cup {[slots |-> {1}, size |-> SmallMax, budget |-> 1, users |-> {}, direct |-> TRUE,
          auth |-> FALSE]}
  \cup {[slots |-> Procs, size |-> 0, budget |-> MaxReqs - 1, users |-> Tokens,
          direct |-> FALSE, auth |-> TRUE] : j \in {k} \cap {"blog"}}

\* The bucket a run starts with: n objects in the folder of record r1 of kind
\* k, a few objects in the folders that the other kinds keep for their r1, and
\* nothing in the folders of ids the database has not issued.
FirstStore(k, n) ==
  [f \in Prefixes |->
     IF f = getFolderPrefix(k, "r1") THEN 1..n
     ELSE IF f \in {getFolderPrefix(j, "r1") : j \in Kinds} THEN 1..SmallMax
     ELSE {}]

\* the record createCaseStudyDraft writes for `author`
Draft(author) == Record(author, <<>>, EmptyDoc, "DRAFT")

\* The record r1 a run starts with: a published record, or, in the runs of
\* concurrent case-study requests on an empty folder, the draft of u1.
FirstRecord(k, sc) ==
  IF k = "caseStudy" /\ sc.slots = Procs /\ sc.size = 0
    THEN Draft("u1")
    ELSE Record("u1", <<"T">>, Doc(<<Text(<<"Hi">>)>>), "PUBLISHED")

Init ==
  /\ \E k \in Kinds : \E sc \in Scenarios(k) :
     LET n == sc.size IN
       /\ run = [slots |-> sc.slots, budget |-> sc.budget, kind |-> k,
                 users |-> sc.users, direct |-> sc.direct, auth |-> sc.auth]
       /\ store = FirstStore(k, n)
       /\ db = [key \in Keys |->
                  IF key = <<k, "r1">> THEN FirstRecord(k, sc)
                  ELSE IF key = <<"user", "u1">> THEN FirstUser
                  ELSE NoRec]
  /\ pc = [p \in Procs |-> "idle"]
  /\ req = [p \in Procs |-> NoReq]
  /\ nreq = 0
  /\ folderPrefix = [p \in Procs |-> <<>>]
  /\ referenced = [p \in Procs |-> {}]
  /\ paths = [p \in Procs |-> <<>>]
  /\ offset = [p \in Procs |-> 0]
  /\ toDelete = [p \in Procs |-> <<>>]
  /\ i = [p \in Procs |-> 0]
  /\ result = [p \in Procs |-> NoResult]
  /\ res = [p \in Procs |-> NoRes]
  /\ inflight = {}
  /\ listLog = [p \in Procs |-> <<>>]
  /\ removeLog = [p \in Procs |-> <<>>]
  /\ folder0 = [p \in Procs |-> {}]
  /\ stable = [p \in Procs |-> TRUE]
  /\ racing = [p \in Procs |-> {}]
  /\ reply = [p \in Procs |-> <<"", "">>]
  /\ persisted = [p \in Procs |-> FALSE]
  /\ rec = [p \in Procs |-> NoRec]
  /\ nextIds = Ids \ {"r1"}
  /\ uuids = UploadIdx

\* ------------------------------------------- utils/syncImages.ts
\* the page's names pushed without the folder: paths.push(f.name)
PushPageBareName(prefix, acc, files) ==
  LET named == SelectSeq(files, LAMBDA n : n # "")
  IN acc \o [k \in 1..Len(named) |-> <<named[k]>>]

\* which of the two storage operations a request runs
IsPurge(op) == op \in {"purge", "delete"}

ListRequest(p, prefix, off) ==
  [proc |-> p, call |-> "list", prefix |-> prefix, limit |-> limit, offset |-> off]

RemoveRequest(p, chunk) == [proc |-> p, call |-> "remove", paths |-> chunk]

Returned(value) == [state |-> "returned", value |-> value]
Thrown(error) == [state |-> "thrown", error |-> error]

\* the handlers without their try/catch around the storage operation: a
\* thrown error reaches the handler's outer catch, which answers 500
AfterStorageUncaught(p, outcome) ==
  /\ result' = [result EXCEPT ![p] = outcome]
  /\ pc' = [pc EXCEPT ![p] = IF req[p].op = "delete" /\ outcome.state = "returned"
                               THEN "delete" ELSE "respond"]
  /\ res' = [res EXCEPT ![p] =
               IF req[p].op \in {"create", "update", "delete"}
                 THEN IF outcome.state = "thrown"
                        THEN [status |-> 500, data |-> "Internal server error"]
                      ELSE IF req[p].op = "create" THEN [status |-> 201, data |-> rec[p]]
                      ELSE IF req[p].op = "update" THEN [status |-> 200, data |-> rec[p]]
                      ELSE @
                 ELSE @]

\* The storage operation of slot p has returned or thrown: the caller goes on.
\* A handler catches and logs a thrown error; create and update then answer,
\* delete then deletes the record; a direct call hands the outcome on.
AfterStorage(p, outcome) ==
  /\ result' = [result EXCEPT ![p] = outcome]
  /\ CASE req[p].op = "delete" ->
            /\ pc' = [pc EXCEPT ![p] = "delete"]
            /\ res' = res
       [] req[p].op = "create" ->
            /\ pc' = [pc EXCEPT ![p] = "respond"]
            /\ res' = [res EXCEPT ![p] = [status |-> 201, data |-> rec[p]]]
       [] req[p].op = "update" ->
            /\ pc' = [pc EXCEPT ![p] = "respond"]
            /\ res' = [res EXCEPT ![p] = [status |-> 200, data |-> rec[p]]]
       [] OTHER ->
            /\ pc' = [pc EXCEPT ![p] = "respond"]
            /\ res' = res

\* syncStorageWithContent / deleteAllContentImages up to the first list request
BeginStorage(p, type, id, refs) ==
  LET prefix == getFolderPrefix(type, id) IN
  /\ folderPrefix' = [folderPrefix EXCEPT ![p] = prefix]
  /\ referenced' = [referenced EXCEPT ![p] = refs]
  /\ paths' = [paths EXCEPT ![p] = <<>>]
  /\ offset' = [offset EXCEPT ![p] = 0]
  /\ toDelete' = [toDelete EXCEPT ![p] = <<>>]
  /\ i' = [i EXCEPT ![p] = 0]
  /\ inflight' = inflight \cup {ListRequest(p, prefix, 0)}
  /\ listLog' = [listLog EXCEPT ![p] = <<ListRequest(p, prefix, 0)>>]
  /\ removeLog' = [removeLog EXCEPT ![p] = <<>>]
  /\ folder0' = [folder0 EXCEPT ![p] = store[prefix]]
  /\ stable' = [stable EXCEPT ![p] = TRUE]
  /\ racing' = [racing EXCEPT ![p] = {}]
  /\ reply' = [reply EXCEPT ![p] = <<"", "">>]
  /\ pc' = [pc EXCEPT ![p] = "list"]
  /\ result' = [result EXCEPT ![p] = NoResult]
  /\ res' = res

\* no storage operation starts or moves in this step
NoStorage == UNCHANGED <<syncVars, logVars, reply, inflight, result>>

\* the page's entries in place of the list so far: paths = files.map(...)
PushPageOnly(prefix, acc, files) ==
  LET named == SelectSeq(files, LAMBDA n : n # "")
  IN [k \in 1..Len(named) |-> PathOf(prefix, named[k])]

\* the page's entries appended: if (f?.name) paths.push(`${folderPrefix}/${f.name}`)
PushPage(prefix, acc, files) ==
  LET named == SelectSeq(files, LAMBDA n : n # "")
  IN acc \o [k \in 1..Len(named) |-> PathOf(prefix, named[k])]

\* a sync that spares what any stored document references
ToDeleteUnlessStored(op, allFiles, refs) ==
  IF IsPurge(op) THEN allFiles
  ELSE Unreferenced(allFiles,
         refs \cup UNION {collectImageFilePaths(db[key].content) :
                            key \in {k \in Kinds \X Ids : db[k].exists}})

\* a purge that spares, like a sync, what a stored document references
ToDeleteReferencedSpared(op, allFiles, refs) ==
  Unreferenced(allFiles,
    refs \cup UNION {collectImageFilePaths(db[key].content) :
                       key \in {k \in Kinds \X Ids : db[k].exists}})

\* what the operation is to delete once the listing is complete
ToDelete(op, allFiles, refs) ==
  IF IsPurge(op) THEN allFiles ELSE Unreferenced(allFiles, refs)

\* the count of the listed files returned in place of the count of the deleted
ReturnValueListed(op, allFiles, del) ==
  IF IsPurge(op) THEN Len(allFiles) ELSE [deleted |-> Len(allFiles)]

\* what the operation returns
ReturnValue(op, allFiles, del) ==
  IF IsPurge(op) THEN Len(allFiles) ELSE [deleted |-> Len(del)]

\* all chunks requested at once, as with Promise.all
removeFilesAtOnce(p, files) ==
  {RemoveRequest(p, Chunk(files, k * chunkSize)) : k \in 0..((Len(files) - 1) \div chunkSize)}

\* removeFiles(paths) up to its first await: the remove request of the first chunk
removeFiles(p, files) == {RemoveRequest(p, Chunk(files, 0))}

\* the test with <= : a full page ends the listing
LastPageInclusive(files) == Len(files) <= limit

\* if (files.length < limit) break
LastPage(files) == Len(files) < limit

\* the other slots with an upload into p's folder in flight
Uploading(p) ==
  {r.proc : r \in {q \in inflight : /\ q.call = "upload" /\ q.proc # p
                                      /\ startsWith(q.paths[1], folderPrefix[p])}}

\* a list request fails: listAllFilesInFolder throws
ListFail(p) ==
  /\ pc[p] = "list"
  /\ \E msg \in ProviderMsgs :
       /\ reply' = [reply EXCEPT ![p] = <<"list", msg>>]
       /\ AfterStorage(p, Thrown(ListError(msg)))
  /\ inflight' = inflight \ {ListRequest(p, folderPrefix[p], offset[p])}
  /\ UNCHANGED <<store, db, run, req, nreq, syncVars, logVars, persisted, rec,
                 nextIds, uuids>>

\* a full page arrives: the next page is requested
ListMore(p) ==
  LET files == ListPage(store[folderPrefix[p]], limit, offset[p]) IN
  /\ pc[p] = "list"
  /\ ~LastPage(files)
  /\ reply' = [reply EXCEPT ![p] = <<"list", "ok">>]
  /\ paths' = [paths EXCEPT ![p] = PushPage(folderPrefix[p], @, files)]
  /\ offset' = [offset EXCEPT ![p] = @ + limit]
  /\ listLog' = [listLog EXCEPT ![p] =
                   Append(@, ListRequest(p, folderPrefix[p], offset'[p]))]
  /\ inflight' = (inflight \ {ListRequest(p, folderPrefix[p], offset[p])})
                   \cup {ListRequest(p, folderPrefix[p], offset'[p])}
  /\ UNCHANGED <<store, db, run, pc, req, nreq, folderPrefix, referenced,
                 toDelete, i, result, res, removeLog, folder0, stable, racing,
                 persisted, rec, nextIds, uuids>>

\* the last page arrives: the listing returns, and the operation either
\* sends its first remove request or returns
ListLast(p) ==
  LET files == ListPage(store[folderPrefix[p]], limit, offset[p])
      allFiles == PushPage(folderPrefix[p], paths[p], files)
      del == ToDelete(req[p].op, allFiles, referenced[p])
  IN
  /\ pc[p] = "list"
  /\ LastPage(files)
  /\ reply' = [reply EXCEPT ![p] = <<"list", "ok">>]
  /\ racing' = [racing EXCEPT ![p] = Uploading(p)]
  /\ paths' = [paths EXCEPT ![p] = allFiles]
  /\ toDelete' = [toDelete EXCEPT ![p] = del]
  /\ IF Len(del) > 0
       THEN /\ removeLog' = [removeLog EXCEPT ![p] = <<Chunk(del, 0)>>]
            /\ inflight' = (inflight \ {ListRequest(p, folderPrefix[p], offset[p])})
                             \cup removeFiles(p, del)
            /\ pc' = [pc EXCEPT ![p] = "remove"]
            /\ UNCHANGED <<result, res>>
       ELSE /\ removeLog' = removeLog
            /\ inflight' = inflight \ {ListRequest(p, folderPrefix[p], offset[p])}
            /\ AfterStorage(p, Returned(ReturnValue(req[p].op, allFiles, del)))
  /\ UNCHANGED <<store, db, run, req, nreq, folderPrefix, referenced, offset, i,
                 listLog, folder0, stable, persisted, rec, nextIds, uuids>>

\* a remove request fails: removeFiles throws, nothing is removed
RemoveFail(p) ==
  /\ pc[p] = "remove"
  /\ \E msg \in ProviderMsgs :
       /\ reply' = [reply EXCEPT ![p] = <<"remove", msg>>]
       /\ AfterStorage(p, Thrown(DeleteError(msg)))
  /\ inflight' = inflight \ {RemoveRequest(p, Chunk(toDelete[p], i[p]))}
  /\ UNCHANGED <<store, db, run, req, nreq, syncVars, logVars, persisted, rec,
                 nextIds, uuids>>

\* the folders after a remove request for `chunk`
StoreWithout(chunk) == [f \in Prefixes |-> RemoveFrom(f, store[f], chunk)]

\* the listings in progress whose folder is still as it was when they began
StillStable(newStore) ==
  [q \in Procs |->
     /\ stable[q]
     /\ pc[q] = "list" => newStore[folderPrefix[q]] = store[folderPrefix[q]]]

\* a remove request succeeds: the next chunk is requested, or the operation returns
RemoveOk(p) ==
  LET chunk == Chunk(toDelete[p], i[p])
      next == i[p] + chunkSize
  IN
  /\ pc[p] = "remove"
  /\ reply' = [reply EXCEPT ![p] = <<"remove", "ok">>]
  /\ store' = StoreWithout(chunk)
  /\ stable' = StillStable(store')
  /\ i' = [i EXCEPT ![p] = next]
  /\ IF next < Len(toDelete[p])
       THEN /\ removeLog' = [removeLog EXCEPT ![p] = Append(@, Chunk(toDelete[p], next))]
            /\ inflight' = (inflight \ {RemoveRequest(p, chunk)})
                             \cup {RemoveRequest(p, Chunk(toDelete[p], next))}
            /\ UNCHANGED <<pc, result, res>>
       ELSE /\ removeLog' = removeLog
            /\ inflight' = inflight \ {RemoveRequest(p, chunk)}
            /\ AfterStorage(p, Returned(ReturnValue(req[p].op, paths[p], toDelete[p])))
  /\ UNCHANGED <<db, run, req, nreq, folderPrefix, referenced, paths, offset,
                 toDelete, listLog, folder0, racing, persisted, rec, nextIds, uuids>>

\* ------------------------------------------------- direct calls
\* a caller invokes syncStorageWithContent(type, id, contentJson)
CallSync(p) ==
  /\ pc[p] = "idle" /\ p \in run.slots /\ nreq < run.budget
  /\ run.slots = {p}
  /\ \E k \in {run.kind}, id \in Ids :
       \E c \in Contents(getFolderPrefix(k, id)) :
         /\ req' = [req EXCEPT ![p] =
                      Request("sync", k, id, NoUser, Undefined, c, Undefined)]
         /\ BeginStorage(p, k, id, collectImageFilePaths(c))
  /\ persisted' = [persisted EXCEPT ![p] = FALSE]
  /\ rec' = [rec EXCEPT ![p] = NoRec]
  /\ nreq' = nreq + 1
  /\ UNCHANGED <<store, db, run, nextIds, uuids>>

\* a caller invokes deleteAllContentImages(type, id)
CallPurge(p) ==
  /\ pc[p] = "idle" /\ p \in run.slots /\ nreq < run.budget
  /\ run.slots = {p}
  /\ \E k \in {run.kind}, id \in Ids :
       /\ req' = [req EXCEPT ![p] =
                    Request("purge", k, id, NoUser, Undefined, Undefined, Undefined)]
       /\ BeginStorage(p, k, id, {})
  /\ persisted' = [persisted EXCEPT ![p] = FALSE]
  /\ rec' = [rec EXCEPT ![p] = NoRec]
  /\ nreq' = nreq + 1
  /\ UNCHANGED <<store, db, run, nextIds, uuids>>

\* a caller invokes one of the walkers of utils/tiptap on a value
CallWalker(p, fn, value) ==
  /\ req' = [req EXCEPT ![p] =
               Request(fn, run.kind, "", NoUser, Undefined, value, Undefined)]
  /\ result' = [result EXCEPT ![p] =
       Returned(CASE fn = "extractPlainTextFromTiptap" ->
                       Str(extractPlainTextFromTiptap(value))
                  [] fn = "findFirstImageAttrs" -> findFirstImageAttrs(value)
                  [] fn = "collectImageFilePaths" ->
                       [ty |-> "set", items |-> collectImageFilePaths(value)])]
  /\ pc' = [pc EXCEPT ![p] = "respond"]
  /\ persisted' = [persisted EXCEPT ![p] = FALSE]
  /\ rec' = [rec EXCEPT ![p] = NoRec]
  /\ nreq' = nreq + 1
  /\ UNCHANGED <<store, db, run, syncVars, res, inflight, logVars, reply, nextIds, uuids>>

CallExtract(p) ==
  /\ pc[p] = "idle" /\ p \in run.slots /\ nreq < run.budget /\ run.direct
  /\ \E value \in Trees : CallWalker(p, "extractPlainTextFromTiptap", value)

CallFindFirst(p) ==
  /\ pc[p] = "idle" /\ p \in run.slots /\ nreq < run.budget /\ run.direct
  /\ \E value \in Trees : CallWalker(p, "findFirstImageAttrs", value)

CallCollect(p) ==
  /\ pc[p] = "idle" /\ p \in run.slots /\ nreq < run.budget /\ run.direct
  /\ \E value \in Trees : CallWalker(p, "collectImageFilePaths", value)

\* ------------------------------------------------- the content handlers
\* The three controllers share their handlers; `kind` selects the table
\* and the folder.  The case-study handlers also carry a status.

\* the handler answers without touching the database or the store
Answer(p, status, data) ==
  /\ pc' = [pc EXCEPT ![p] = "respond"]
  /\ res' = [res EXCEPT ![p] = [status |-> status, data |-> data]]

\* In the runs with registrations a request carries the token register or
\* login issued: that of a user of the table, with the role of its row.
TokenOk(user) ==
  (run.auth /\ user # NoUser) =>
    /\ db[<<"user", user.userId>>].exists
    /\ db[<<"user", user.userId>>].role = user.role

\* a request enters a handler
Enter(p, r) ==
  /\ TokenOk(r.user)
  /\ req' = [req EXCEPT ![p] = r]
  /\ nreq' = nreq + 1
  /\ persisted' = [persisted EXCEPT ![p] = FALSE]
  /\ rec' = [rec EXCEPT ![p] = NoRec]

\* the validation of createBlog, updateBlog and their newsletter and
\* case-study (create) twins: "" when the body passes
BodyError(title, content) ==
  CASE ~Truthy(title) -> "Title is required"
    [] trim(title.v) = <<>> -> "Title cannot be empty"
    [] ~Truthy(content) -> "Content is required"
    [] trim(extractPlainTextFromTiptap(content)) = <<>> -> "Content cannot be empty"
    [] OTHER -> ""

\* create: validation, then prisma.<kind>.create is awaited
create(p) ==
  /\ pc[p] = "idle" /\ p \in run.slots /\ nreq < run.budget
  /\ \E k \in {run.kind}, u \in run.users, t \in Titles \cup {Unread} :
    \E c \in BodyContents(getFolderPrefix(k, "r2")) \cup {Unread} :
      /\ u = NoUser => (t = Unread /\ c = Unread)
      /\ u # NoUser => (t # Unread /\ c # Unread)
      /\ (u # NoUser /\ BodyError(t, Doc(<<Text(<<"Hi">>)>>)) # "") => c = Undefined
      /\ Enter(p, Request("create", k, "", u, t, c, Undefined))
      /\ IF u = NoUser THEN Answer(p, 401, "Authentication required")
         ELSE IF BodyError(t, c) # "" THEN Answer(p, 400, BodyError(t, c))
         ELSE /\ nextIds # {}
              /\ pc' = [pc EXCEPT ![p] = "create"]
              /\ res' = res
      /\ NoStorage
      /\ UNCHANGED <<store, db, run, nextIds, uuids>>

\* the record is created; the handler starts the sync of its images
createDone(p) ==
  /\ pc[p] = "create"
  /\ \E id \in nextIds :
       LET r == Record(req[p].user.userId, trim(req[p].title.v), req[p].content,
                       IF req[p].kind = "caseStudy" THEN "PUBLISHED" ELSE "NONE")
       IN
       /\ nextIds' = nextIds \ {id}
       /\ db' = [db EXCEPT ![<<req[p].kind, id>>] = r]
       /\ rec' = [rec EXCEPT ![p] = r]
       /\ req' = [req EXCEPT ![p].id = id]
       /\ BeginStorage(p, req[p].kind, id, collectImageFilePaths(req[p].content))
  /\ persisted' = [persisted EXCEPT ![p] = TRUE]
  /\ UNCHANGED <<store, run, nreq, uuids>>

\* createCaseStudyDraft: 401, or prisma.caseStudy.create is awaited
createCaseStudyDraft(p) ==
  /\ pc[p] = "idle" /\ p \in run.slots /\ nreq < run.budget
  /\ run.kind = "caseStudy"
  /\ \E u \in run.users :
       /\ Enter(p, Request("createDraft", "caseStudy", "", u, Undefined, Undefined,
                           Undefined))
       /\ IF u = NoUser THEN Answer(p, 401, "Authentication required")
          ELSE /\ nextIds # {}
               /\ pc' = [pc EXCEPT ![p] = "createDraft"]
               /\ res' = res
  /\ NoStorage
  /\ UNCHANGED <<store, db, run, nextIds, uuids>>

\* the draft is created: 201
createCaseStudyDraftDone(p) ==
  /\ pc[p] = "createDraft"
  /\ \E id \in nextIds :
       /\ nextIds' = nextIds \ {id}
       /\ db' = [db EXCEPT ![<<"caseStudy", id>>] = Draft(req[p].user.userId)]
       /\ rec' = [rec EXCEPT ![p] = Draft(req[p].user.userId)]
       /\ req' = [req EXCEPT ![p].id = id]
       /\ Answer(p, 201, Draft(req[p].user.userId))
  /\ persisted' = [persisted EXCEPT ![p] = TRUE]
  /\ NoStorage
  /\ UNCHANGED <<store, run, nreq, uuids>>

\* a check that lets every editor pass
ForbiddenExceptEditors(record, user) ==
  record.authorId # user.userId /\ user.role \notin {"admin", "editor"}

\* the record createBlogDraft and createNewsletterDraft write for `author`:
\* these tables have no status column
BlogDraft(author) == Record(author, <<>>, EmptyDoc, "NONE")

\* createBlogDraft and its newsletter twin: 401, or prisma.<kind>.create is awaited
createBlogDraft(p) ==
  /\ pc[p] = "idle" /\ p \in run.slots /\ nreq < run.budget
  /\ run.kind \in {"blog", "newsletter"}
  /\ \E u \in run.users :
       /\ Enter(p, Request("createDraft", run.kind, "", u, Undefined, Undefined,
                           Undefined))
       /\ IF u = NoUser THEN Answer(p, 401, "Authentication required")
          ELSE /\ nextIds # {}
               /\ pc' = [pc EXCEPT ![p] = "createBlogDraft"]
               /\ res' = res
  /\ NoStorage
  /\ UNCHANGED <<store, db, run, nextIds, uuids>>

\* the draft is created: 201
createBlogDraftDone(p) ==
  /\ pc[p] = "createBlogDraft"
  /\ \E id \in nextIds :
       /\ nextIds' = nextIds \ {id}
       /\ db' = [db EXCEPT ![<<req[p].kind, id>>] = BlogDraft(req[p].user.userId)]
       /\ rec' = [rec EXCEPT ![p] = BlogDraft(req[p].user.userId)]
       /\ req' = [req EXCEPT ![p].id = id]
       /\ Answer(p, 201, BlogDraft(req[p].user.userId))
  /\ persisted' = [persisted EXCEPT ![p] = TRUE]
  /\ NoStorage
  /\ UNCHANGED <<store, run, nreq, uuids>>

\* getAllBlogs, getAllNewsletters: the filter on the records found;
\* getAllCaseStudies: the where clause of findMany
InPublicList(kind, record) ==
  IF kind = "caseStudy" THEN record.status = "PUBLISHED"
  ELSE Children(record.content) # <<>>

\* the public list: findMany is awaited; the request carries no user
getAll(p) ==
  /\ pc[p] = "idle" /\ p \in run.slots /\ nreq < run.budget
  /\ ~run.direct
  /\ Enter(p, Request("getAll", run.kind, "", NoUser, Undefined, Undefined, Undefined))
  /\ pc' = [pc EXCEPT ![p] = "findMany"]
  /\ NoStorage
  /\ UNCHANGED <<store, db, run, res, nextIds, uuids>>

\* findMany returns: 200 with the records that pass
getAllDone(p) ==
  /\ pc[p] = "findMany"
  /\ Answer(p, 200,
            {[id |-> id, record |-> db[<<req[p].kind, id>>]] :
               id \in {j \in Ids : /\ db[<<req[p].kind, j>>].exists
                                    /\ InPublicList(req[p].kind, db[<<req[p].kind, j>>])}})
  /\ NoStorage
  /\ UNCHANGED <<store, db, run, req, nreq, persisted, rec, nextIds, uuids>>

\* the public get by id: findUnique is awaited; the request carries no user
getById(p) ==
  /\ pc[p] = "idle" /\ p \in run.slots /\ nreq < run.budget
  /\ ~run.direct
  /\ \E id \in Ids \ nextIds :
       Enter(p, Request("getById", run.kind, id, NoUser, Undefined, Undefined, Undefined))
  /\ pc' = [pc EXCEPT ![p] = "findUnique"]
  /\ NoStorage
  /\ UNCHANGED <<store, db, run, res, nextIds, uuids>>

\* whether the get by id answers 404 for the record it found
NotFound(kind, record) ==
  ~record.exists \/ (kind = "caseStudy" /\ record.status # "PUBLISHED")

\* findUnique returns to the get by id: 404, or 200 with the record
getByIdFound(p) ==
  LET record == db[<<req[p].kind, req[p].id>>] IN
  /\ pc[p] = "findUnique" /\ req[p].op = "getById"
  /\ rec' = [rec EXCEPT ![p] = record]
  /\ IF NotFound(req[p].kind, record) THEN Answer(p, 404, "not found")
     ELSE Answer(p, 200, record)
  /\ NoStorage
  /\ UNCHANGED <<store, db, run, req, nreq, persisted, nextIds, uuids>>

\* ------------------------------------- controllers/authController.ts
\* the bodies of a register request; the body with valid = FALSE stands for
\* those the validation refuses (a field missing, passwords that differ, a
\* password shorter than 6)
RegisterBodies ==
  {[email |-> e, username |-> n, valid |-> TRUE] : e \in Emails, n \in Usernames}
  \cup {[email |-> "e1", username |-> "n1", valid |-> FALSE]}

\* the users of the table
Rows ==
  {db[<<"user", UserIds[n]>>] :
     n \in {m \in 1..Len(UserIds) : db[<<"user", UserIds[m]>>].exists}}

\* the id the database gives the next user
NextUserId == UserIds[Cardinality(Rows) + 1]

\* role: 'admin' in the data of prisma.user.create
RoleOfNewUser == "admin"

\* register: 400, or the lookup by email is awaited
register(p) ==
  /\ pc[p] = "idle" /\ p \in run.slots /\ nreq < run.budget
  /\ run.auth
  /\ Cardinality(Rows) + Cardinality({q \in Procs : req[q].op = "register"})
       < Len(UserIds)
  /\ \E body \in RegisterBodies :
       /\ Enter(p, [op |-> "register", user |-> NoUser, email |-> body.email,
                    username |-> body.username, valid |-> body.valid])
       /\ IF ~body.valid THEN Answer(p, 400, "Email, username, and password are required")
          ELSE /\ pc' = [pc EXCEPT ![p] = "findEmail"]
               /\ res' = res
  /\ NoStorage
  /\ UNCHANGED <<store, db, run, nextIds, uuids>>

\* findUnique({ email }) returns: 409, or the lookup by username is awaited
registerEmail(p) ==
  /\ pc[p] = "findEmail"
  /\ IF \E u \in Rows : u.email = req[p].email
       THEN Answer(p, 409, "Email already registered")
       ELSE /\ pc' = [pc EXCEPT ![p] = "findUsername"]
            /\ res' = res
  /\ NoStorage
  /\ UNCHANGED <<store, db, run, req, nreq, persisted, rec, nextIds, uuids>>

\* findUnique({ username }) returns: 409, or hashPassword is awaited
registerUsername(p) ==
  /\ pc[p] = "findUsername"
  /\ IF \E u \in Rows : u.username = req[p].username
       THEN Answer(p, 409, "Username already taken")
       ELSE /\ pc' = [pc EXCEPT ![p] = "hashPassword"]
            /\ res' = res
  /\ NoStorage
  /\ UNCHANGED <<store, db, run, req, nreq, persisted, rec, nextIds, uuids>>

\* hashPassword returns: prisma.user.create is awaited
registerHashed(p) ==
  /\ pc[p] = "hashPassword"
  /\ pc' = [pc EXCEPT ![p] = "createUser"]
  /\ NoStorage
  /\ UNCHANGED <<store, db, run, req, nreq, res, persisted, rec, nextIds, uuids>>

\* prisma.user.create returns the new row (201), or throws because email or
\* username is no longer free: the two columns are unique, as the lookups by
\* findUnique on each of them require (500)
registerCreate(p) ==
  /\ pc[p] = "createUser"
  /\ IF \E u \in Rows : u.email = req[p].email \/ u.username = req[p].username
       THEN /\ Answer(p, 500, "Internal server error")
            /\ UNCHANGED <<db, rec, persisted>>
       ELSE LET user == User(NextUserId, req[p].email, req[p].username, RoleOfNewUser) IN
            /\ db' = [db EXCEPT ![<<"user", user.id>>] = user]
            /\ rec' = [rec EXCEPT ![p] = user]
            /\ persisted' = [persisted EXCEPT ![p] = TRUE]
            /\ Answer(p, 201, user)
  /\ NoStorage
  /\ UNCHANGED <<store, run, req, nreq, nextIds, uuids>>

\* only author or admin
Forbidden(record, user) == record.authorId # user.userId /\ user.role # "admin"

\* update: 401, or the record is looked up
update(p) ==
  /\ pc[p] = "idle" /\ p \in run.slots /\ nreq < run.budget
  /\ \E k \in {run.kind}, id \in Ids \ nextIds, u \in run.users :
       /\ Enter(p, Request("update", k, id, u, Unread, Unread, Unread))
       /\ IF u = NoUser THEN Answer(p, 401, "Authentication required")
          ELSE /\ pc' = [pc EXCEPT ![p] = "findUnique"]
               /\ res' = res
  /\ NoStorage
  /\ UNCHANGED <<store, db, run, nextIds, uuids>>

\* delete: 401, or the record is looked up
delete(p) ==
  /\ pc[p] = "idle" /\ p \in run.slots /\ nreq < run.budget
  /\ \E k \in {run.kind}, id \in Ids \ nextIds, u \in run.users :
       /\ Enter(p, Request("delete", k, id, u, Unread, Unread, Unread))
       /\ IF u = NoUser THEN Answer(p, 401, "Authentication required")
          ELSE /\ pc' = [pc EXCEPT ![p] = "findUnique"]
               /\ res' = res
  /\ NoStorage
  /\ UNCHANGED <<store, db, run, nextIds, uuids>>

\* updateCaseStudy: the status the record will have
parsedStatus(status) ==
  IF status = Str(<<"PUBLISHED">>) THEN "PUBLISHED"
  ELSE IF status = Str(<<"DRAFT">>) THEN "DRAFT" ELSE "undefined"

nextStatus(status, record) ==
  IF parsedStatus(status) # "undefined" THEN parsedStatus(status) ELSE record.status

\* updateCaseStudy: its validation, "" when the body passes
CaseStudyBodyError(r, record) ==
  IF nextStatus(r.status, record) = "PUBLISHED"
    THEN CASE ~Truthy(r.title) \/ ~isString(r.title) \/ trim(r.title.v) = <<>> ->
                "Title is required"
           [] ~Truthy(r.content) -> "Content is required"
           [] trim(extractPlainTextFromTiptap(r.content)) = <<>> ->
                "Content cannot be empty"
           [] OTHER -> ""
    ELSE CASE r.title # Undefined /\ (~isString(r.title) \/ trim(r.title.v) = <<>>) ->
                "Title cannot be empty"
           [] r.content # Undefined /\ ~Truthy(r.content) -> "Content is required"
           [] OTHER -> ""

UpdateError(r, record) ==
  IF r.kind = "caseStudy" THEN CaseStudyBodyError(r, record)
  ELSE BodyError(r.title, r.content)

\* the data of prisma.<kind>.update: blog and newsletter write title and
\* content; case study writes the fields the body carries
Updated(r, record) ==
  IF r.kind = "caseStudy"
    THEN [record EXCEPT
            !.title = IF isString(r.title) THEN trim(r.title.v) ELSE @,
            !.content = IF r.content # Undefined THEN r.content ELSE @,
            !.status = IF parsedStatus(r.status) # "undefined"
                         THEN parsedStatus(r.status) ELSE @]
    ELSE [record EXCEPT !.title = trim(r.title.v), !.content = r.content]

\* the bodies an update request may carry; a body whose title fails the
\* validation stands for all contents
Bodies(r) ==
  { [r EXCEPT !.title = t, !.content = c, !.status = st] :
      t \in Titles, c \in BodyContents(getFolderPrefix(r.kind, r.id)),
      st \in IF r.kind = "caseStudy" THEN Statuses ELSE {Undefined} }

\* findUnique returns to update: 404, 403, 400 or prisma.<kind>.update is awaited
updateFound(p) ==
  LET record == db[<<req[p].kind, req[p].id>>] IN
  /\ pc[p] = "findUnique" /\ req[p].op = "update"
  /\ IF ~record.exists THEN Answer(p, 404, "not found") /\ req' = req
     ELSE IF Forbidden(record, req[p].user)
       THEN Answer(p, 403, "You can only edit your own") /\ req' = req
     ELSE \E r \in Bodies(req[p]) :
            /\ req' = [req EXCEPT ![p] = r]
            /\ IF UpdateError(r, record) # ""
                 THEN Answer(p, 400, UpdateError(r, record))
                 ELSE /\ pc' = [pc EXCEPT ![p] = "update"]
                      /\ res' = res
  /\ NoStorage
  /\ UNCHANGED <<store, db, run, nreq, persisted, rec, nextIds, uuids>>

\* prisma.<kind>.update throws when the record is gone: 500
updateGone(p) ==
  /\ pc[p] = "update"
  /\ ~db[<<req[p].kind, req[p].id>>].exists
  /\ Answer(p, 500, "Internal server error")
  /\ NoStorage
  /\ UNCHANGED <<store, db, run, req, nreq, persisted, rec, nextIds, uuids>>

\* a handler that syncs after every update
SyncsAfterEveryUpdate(r) == TRUE

\* whether the update handler syncs the images after its write
SyncsAfterUpdate(r) == r.kind # "caseStudy" \/ r.content # Undefined

\* the record is written; the handler starts the sync of its images
updateDone(p) ==
  LET key == <<req[p].kind, req[p].id>>
      r == Updated(req[p], db[key])
  IN
  /\ pc[p] = "update"
  /\ db[key].exists
  /\ db' = [db EXCEPT ![key] = r]
  /\ rec' = [rec EXCEPT ![p] = r]
  /\ persisted' = [persisted EXCEPT ![p] = TRUE]
  /\ IF SyncsAfterUpdate(req[p])
       THEN BeginStorage(p, req[p].kind, req[p].id, collectImageFilePaths(req[p].content))
       ELSE Answer(p, 200, r) /\ NoStorage
  /\ UNCHANGED <<store, run, req, nreq, nextIds, uuids>>

\* findUnique returns to delete: 404, 403 or the purge of the folder starts
deleteFound(p) ==
  LET record == db[<<req[p].kind, req[p].id>>] IN
  /\ pc[p] = "findUnique" /\ req[p].op = "delete"
  /\ IF ~record.exists THEN Answer(p, 404, "not found") /\ NoStorage
     ELSE IF Forbidden(record, req[p].user)
       THEN Answer(p, 403, "You can only delete your own") /\ NoStorage
     ELSE BeginStorage(p, req[p].kind, req[p].id, {})
  /\ UNCHANGED <<store, db, run, req, nreq, persisted, rec, nextIds, uuids>>

\* prisma.<kind>.delete after the purge: 200, or 500 when the record is gone
deleteDone(p) ==
  LET key == <<req[p].kind, req[p].id>> IN
  /\ pc[p] = "delete"
  /\ IF db[key].exists
       THEN /\ db' = [db EXCEPT ![key] = NoRec]
            /\ persisted' = [persisted EXCEPT ![p] = TRUE]
            /\ Answer(p, 200, "deleted successfully")
       ELSE /\ UNCHANGED <<db, persisted>>
            /\ Answer(p, 500, "Internal server error")
  /\ NoStorage
  /\ UNCHANGED <<store, run, req, nreq, rec, nextIds, uuids>>

\* generateFilePath: `${folder}/${contentId}/${uniqueName}`;
\* the token NameOf(n) stands for the unique name `${uuidv4()}.${ext}`
generateFilePath(contentType, contentId, n) ==
  <<folderMap[contentType], "/", contentId, "/", NameOf(n)>>

UploadRequest(p, path) == [proc |-> p, call |-> "upload", paths |-> <<path>>]

\* the image upload: 401, validateImageFile throws (400), or the lookup
uploadImage(p) ==
  /\ pc[p] = "idle" /\ p \in run.slots /\ nreq < run.budget
  /\ \E k \in {run.kind}, id \in Ids \ nextIds, u \in run.users, file \in BOOLEAN :
       /\ u = NoUser => file
       /\ Enter(p, [Request("upload", k, id, u, Unread, Unread, Unread)
                      EXCEPT !.file = file])
       /\ IF u = NoUser THEN Answer(p, 401, "Authentication required")
          ELSE IF ~file THEN Answer(p, 400, "No file uploaded")
          ELSE /\ pc' = [pc EXCEPT ![p] = "findUnique"]
               /\ res' = res
  /\ NoStorage
  /\ UNCHANGED <<store, db, run, nextIds, uuids>>

\* findUnique returns to the upload: 404, 403 or the upload request is sent
uploadFound(p) ==
  LET record == db[<<req[p].kind, req[p].id>>] IN
  /\ pc[p] = "findUnique" /\ req[p].op = "upload"
  /\ IF ~record.exists
       THEN Answer(p, 404, "not found") /\ UNCHANGED <<req, uuids, inflight>>
     ELSE IF Forbidden(record, req[p].user)
       THEN Answer(p, 403, "You can only edit your own") /\ UNCHANGED <<req, uuids, inflight>>
     ELSE \E n \in uuids :
            LET path == generateFilePath(req[p].kind, req[p].id, n) IN
            /\ uuids' = uuids \ {n}
            /\ req' = [req EXCEPT ![p].filePath = path]
            /\ inflight' = inflight \cup {UploadRequest(p, path)}
            /\ pc' = [pc EXCEPT ![p] = "upload"]
            /\ res' = res
  /\ UNCHANGED <<store, db, run, nreq, syncVars, logVars, reply, result, persisted, rec,
                 nextIds>>

\* the folders after the upload of `path`
StoreWith(path) ==
  [f \in Prefixes |-> store[f] \cup {n \in UploadIdx : PathOf(f, NameOf(n)) = path}]

\* the upload succeeds: the object exists, the handler answers its path and url
uploadOk(p) ==
  /\ pc[p] = "upload"
  /\ store' = StoreWith(req[p].filePath)
  /\ stable' = StillStable(store')
  /\ inflight' = inflight \ {UploadRequest(p, req[p].filePath)}
  /\ Answer(p, 200, [url |-> <<"https://cdn/">> \o req[p].filePath,
                     filePath |-> req[p].filePath])
  /\ UNCHANGED <<db, run, req, nreq, syncVars, listLog, removeLog, folder0, racing,
                 reply, result, persisted, rec, nextIds, uuids>>

\* the upload fails: uploadFile throws, the handler answers 400
uploadFail(p) ==
  /\ pc[p] = "upload"
  /\ inflight' = inflight \ {UploadRequest(p, req[p].filePath)}
  /\ \E msg \in ProviderMsgs : Answer(p, 400, <<"Upload failed: ", msg>>)
  /\ UNCHANGED <<store, db, run, req, nreq, syncVars, logVars, reply, result, persisted,
                 rec, nextIds, uuids>>

\* what the body of an image-delete request for record (k, id) may hold as
\* filePath: nothing, a number, '', the path of an object of the record, the
\* path of an object of the same id under another kind, of another record of
\* the kind, and the record's prefix with no slash after it
FilePaths(k, id) ==
  {Undefined, Num(7), Str(<<>>), Str(getFolderPrefix(k, id)),
   Str(PathOf(getFolderPrefix(k, id), NameOf(1)))}
  \cup {Str(PathOf(getFolderPrefix(j, id), NameOf(1))) : j \in Kinds \ {k}}
  \cup {Str(PathOf(getFolderPrefix(k, j), NameOf(1))) : j \in Ids \ {id}}

\* a validation that only asks for a non-empty string
FilePathErrorAnyString(filePath, k, id) ==
  IF ~Truthy(filePath) \/ ~isString(filePath) THEN "filePath is required" ELSE ""

\* the validation of the image-delete handlers: "" when filePath passes
FilePathError(filePath, k, id) ==
  CASE ~Truthy(filePath) \/ ~isString(filePath) -> "filePath is required"
    [] ~startsWith(filePath.v, getFolderPrefix(k, id) \o <<"/">>) -> "Invalid filePath"
    [] OTHER -> ""

\* deleteFile(filePath): supabase.storage.remove([filePath])
DeleteFileRequest(p, filePath) == RemoveRequest(p, <<filePath>>)

\* the image delete: 401, or the record is looked up
deleteImage(p) ==
  /\ pc[p] = "idle" /\ p \in run.slots /\ nreq < run.budget
  /\ \E k \in {run.kind}, id \in Ids \ nextIds, u \in run.users :
       /\ Enter(p, [Request("deleteImage", k, id, u, Unread, Unread, Unread)
                      EXCEPT !.filePath = Unread])
       /\ IF u = NoUser THEN Answer(p, 401, "Authentication required")
          ELSE /\ pc' = [pc EXCEPT ![p] = "findUnique"]
               /\ res' = res
  /\ NoStorage
  /\ UNCHANGED <<store, db, run, nextIds, uuids>>

\* findUnique returns to the image delete: 404, 403, 400 or deleteFile is awaited
deleteImageFound(p) ==
  LET record == db[<<req[p].kind, req[p].id>>] IN
  /\ pc[p] = "findUnique" /\ req[p].op = "deleteImage"
  /\ IF ~record.exists
       THEN Answer(p, 404, "not found") /\ UNCHANGED <<req, inflight>>
     ELSE IF Forbidden(record, req[p].user)
       THEN Answer(p, 403, "You can only delete your own") /\ UNCHANGED <<req, inflight>>
     ELSE \E filePath \in FilePaths(req[p].kind, req[p].id) :
            /\ req' = [req EXCEPT ![p].filePath = filePath]
            /\ IF FilePathError(filePath, req[p].kind, req[p].id) # ""
                 THEN /\ Answer(p, 400, FilePathError(filePath, req[p].kind, req[p].id))
                      /\ inflight' = inflight
                 ELSE /\ inflight' = inflight \cup {DeleteFileRequest(p, filePath.v)}
                      /\ pc' = [pc EXCEPT ![p] = "deleteFile"]
                      /\ res' = res
  /\ UNCHANGED <<store, db, run, nreq, syncVars, logVars, reply, result, persisted, rec,
                 nextIds, uuids>>

\* deleteFile succeeds: the object is gone, the handler answers 200
deleteFileOk(p) ==
  /\ pc[p] = "deleteFile"
  /\ store' = StoreWithout(<<req[p].filePath.v>>)
  /\ stable' = StillStable(store')
  /\ inflight' = inflight \ {DeleteFileRequest(p, req[p].filePath.v)}
  /\ Answer(p, 200, [filePath |-> req[p].filePath.v])
  /\ UNCHANGED <<db, run, req, nreq, syncVars, listLog, removeLog, folder0, racing,
                 reply, result, persisted, rec, nextIds, uuids>>

\* deleteFile throws: the handler answers 500
deleteFileFail(p) ==
  /\ pc[p] = "deleteFile"
  /\ inflight' = inflight \ {DeleteFileRequest(p, req[p].filePath.v)}
  /\ Answer(p, 500, "Failed to delete image")
  /\ UNCHANGED <<store, db, run, req, nreq, syncVars, logVars, reply, result, persisted,
                 rec, nextIds, uuids>>

\* the response is sent; the slot is free for its next request
respond(p) ==
  /\ pc[p] = "respond"
  /\ pc' = [pc EXCEPT ![p] = "idle"]
  /\ req' = [req EXCEPT ![p] = NoReq]
  /\ res' = [res EXCEPT ![p] = NoRes]
  /\ result' = [result EXCEPT ![p] = NoResult]
  /\ rec' = [rec EXCEPT ![p] = NoRec]
  /\ persisted' = [persisted EXCEPT ![p] = FALSE]
  /\ folderPrefix' = [folderPrefix EXCEPT ![p] = <<>>]
  /\ referenced' = [referenced EXCEPT ![p] = {}]
  /\ paths' = [paths EXCEPT ![p] = <<>>]
  /\ offset' = [offset EXCEPT ![p] = 0]
  /\ toDelete' = [toDelete EXCEPT ![p] = <<>>]
  /\ i' = [i EXCEPT ![p] = 0]
  /\ listLog' = [listLog EXCEPT ![p] = <<>>]
  /\ removeLog' = [removeLog EXCEPT ![p] = <<>>]
  /\ folder0' = [folder0 EXCEPT ![p] = {}]
  /\ stable' = [stable EXCEPT ![p] = TRUE]
  /\ racing' = [racing EXCEPT ![p] = {}]
  /\ reply' = [reply EXCEPT ![p] = <<"", "">>]
  /\ UNCHANGED <<store, db, run, nreq, inflight, nextIds, uuids>>

Next ==
  \E p \in Procs :
    \/ CallSync(p) \/ CallPurge(p)
    \/ CallExtract(p) \/ CallFindFirst(p) \/ CallCollect(p)
    \/ ListFail(p) \/ ListMore(p) \/ ListLast(p)
    \/ RemoveFail(p) \/ RemoveOk(p)
    \/ create(p) \/ createDone(p)
    \/ createCaseStudyDraft(p) \/ createCaseStudyDraftDone(p)
    \/ createBlogDraft(p) \/ createBlogDraftDone(p)
    \/ getAll(p) \/ getAllDone(p) \/ getById(p) \/ getByIdFound(p)
    \/ register(p) \/ registerEmail(p) \/ registerUsername(p)
    \/ registerHashed(p) \/ registerCreate(p)
    \/ update(p) \/ updateFound(p) \/ updateGone(p) \/ updateDone(p)
    \/ delete(p) \/ deleteFound(p) \/ deleteDone(p)
    \/ uploadImage(p) \/ uploadFound(p) \/ uploadOk(p) \/ uploadFail(p)
    \/ deleteImage(p) \/ deleteImageFound(p) \/ deleteFileOk(p) \/ deleteFileFail(p)
    \/ respond(p)

Spec == Init /\ [][Next]_vars

TypeOK ==
  /\ \A p \in Procs : pc[p] \in {"idle", "findUnique", "findMany", "findEmail", "findUsername",
                                 "hashPassword", "createUser", "create", "createDraft",
                                 "createBlogDraft", "update", "delete",
                                 "list", "remove", "upload", "deleteFile", "respond"}
  /\ \A r \in inflight : r.proc \in run.slots

\* ------------------------------------------------------ properties
SyncOps == {"sync", "create", "update"}

\* the slot's request has started a sync of the store with its document
Syncing(p) == req[p].op \in SyncOps /\ listLog[p] # <<>>

PathsOf(files) == {files[k] : k \in 1..Len(files)}

\* the paths of all remove requests the slot's operation has sent
Requested(p) == UNION {PathsOf(removeLog[p][k]) : k \in 1..Len(removeLog[p])}

RemovesInFlight(p) == {r \in inflight : r.proc = p /\ r.call = "remove"}

\* the objects of the slot's folder that its document references
ReferencedObjects(p) ==
  {n \in folder0[p] :
     PathOf(folderPrefix[p], NameOf(n)) \in collectImageFilePaths(req[p].content)}

\* C1: a sync never sends a remove request that holds a path its document
\* tree references, and, when no other request works on the store, every
\* object the tree references is in the store at each point of the operation,
\* whatever its outcome.
C1_ReferencedNeverRemoved ==
  \A p \in Procs :
    Syncing(p) =>
      /\ Requested(p) \cap collectImageFilePaths(req[p].content) = {}
      /\ \A r \in RemovesInFlight(p) :
           PathsOf(r.paths) \cap collectImageFilePaths(req[p].content) = {}
      /\ run.slots = {p} => ReferencedObjects(p) \subseteq store[folderPrefix[p]]

\* a sync whose second delete batch failed after the first had deleted, with
\* referenced objects in the folder
C1_Witness ==
  \E p \in Procs :
    /\ Syncing(p) /\ run.slots = {p}
    /\ result[p].state = "thrown" /\ reply[p][1] = "remove"
    /\ Len(removeLog[p]) = 2
    /\ Cardinality(ReferencedObjects(p)) >= 2
    /\ ReferencedObjects(p) \subseteq store[folderPrefix[p]]

\* C2: a sync all of whose storage requests succeeded has requested the
\* removal of exactly the listed paths its tree does not reference and has
\* returned { deleted: n } with n their number; when there is none it has sent
\* no remove request and returned { deleted: 0 }; with no other request at
\* work the folder has lost exactly those objects.
C2_RemovesDifference ==
  \A p \in Procs :
    (Syncing(p) /\ result[p].state = "returned") =>
      LET diff == PathsOf(paths[p]) \ collectImageFilePaths(req[p].content) IN
      /\ Requested(p) = diff
      /\ result[p].value = [deleted |-> Cardinality(diff)]
      /\ diff = {} => (removeLog[p] = <<>> /\ result[p].value = [deleted |-> 0])
      /\ run.slots = {p} =>
           store[folderPrefix[p]] =
             {n \in folder0[p] : PathOf(folderPrefix[p], NameOf(n)) \notin diff}

\* a sync that returned after two successful delete batches and kept some objects
C2_Witness ==
  \E p \in Procs :
    /\ Syncing(p) /\ result[p].state = "returned"
    /\ Len(removeLog[p]) = 2
    /\ result[p].value.deleted > limit
    /\ result[p].value.deleted < Len(paths[p])

\* the slot's listing has returned its list
Listed(p) ==
  /\ listLog[p] # <<>> /\ pc[p] # "list"
  /\ ~(reply[p][1] = "list" /\ reply[p][2] \in ProviderMsgs)

\* the record the slot's request is about
KeyOf(p) == <<req[p].kind, req[p].id>>

\* what the record's stored document references
StoredRefs(p) ==
  IF db[KeyOf(p)].exists THEN collectImageFilePaths(db[KeyOf(p)].content) ELSE {}

\* C3: nothing guards a sync against a concurrent edit: whatever the record's
\* stored document has become and whatever upload was in flight when the
\* folder was listed, every listed path that the sync's own tree does not
\* reference is in its delete list, the paths the stored document references
\* among them.
C3_NoGuardAgainstNewerTree ==
  \A p \in Procs :
    (Syncing(p) /\ Listed(p)) =>
      (PathsOf(paths[p]) \cap StoredRefs(p)) \ collectImageFilePaths(req[p].content)
        \subseteq PathsOf(toDelete[p])

\* edit A listed the folder while edit B's upload was in flight; B has since
\* written its newer tree to the record, and A's sync has deleted an object
\* that tree references
C3_Witness ==
  \E p \in Procs : \E q \in racing[p] :
    /\ Syncing(p) /\ req[p].op = "update" /\ result[p].state = "returned"
    /\ req[q].op = "update" /\ KeyOf(q) = KeyOf(p) /\ persisted[q]
    /\ db[KeyOf(p)] = rec[q] /\ req[q].content # req[p].content
    /\ \E n \in folder0[p] :
         /\ PathOf(folderPrefix[p], NameOf(n)) \in Requested(p)
         /\ PathOf(folderPrefix[p], NameOf(n)) \in collectImageFilePaths(req[q].content)
         /\ n \notin store[folderPrefix[p]]

Handlers == {"create", "update", "delete"}

\* C4: a content handler has done its own database write before it starts
\* its storage operation: create and update have written the record, delete
\* has deleted it.
C4_StorageAfterPersistence ==
  \A p \in Procs :
    (req[p].op \in Handlers /\ listLog[p] # <<>>) => persisted[p]

\* the slot's storage operation has thrown
StorageFailed(p) == listLog[p] # <<>> /\ result[p].state = "thrown"

\* C5: a handler whose storage operation threw answers as it does when the
\* operation returns: create 201 and update 200 with the record written,
\* delete 200 with the record deleted; the one 500 is that of a delete whose
\* record a concurrent delete removed first.
C5_StorageFailureIsNotFatal ==
  \A p \in Procs :
    (req[p].op \in Handlers /\ StorageFailed(p) /\ pc[p] = "respond") =>
      IF req[p].op = "create"
        THEN /\ res[p] = [status |-> 201, data |-> rec[p]]
             /\ persisted[p] /\ rec[p].exists
             /\ run.slots = {p} => db[KeyOf(p)] = rec[p]
      ELSE IF req[p].op = "update"
        THEN /\ res[p] = [status |-> 200, data |-> rec[p]]
             /\ persisted[p] /\ rec[p].exists
             /\ run.slots = {p} => db[KeyOf(p)] = rec[p]
      ELSE /\ ~db[KeyOf(p)].exists
           /\ \/ res[p].status = 200 /\ persisted[p]
              \/ res[p].status = 500 /\ ~persisted[p] /\ run.slots # {p}

\* a delete whose purge failed in a delete batch has deleted the record and
\* answers 200
C5_Witness ==
  \E p \in Procs :
    /\ req[p].op = "delete" /\ StorageFailed(p) /\ reply[p][1] = "remove"
    /\ pc[p] = "respond" /\ res[p].status = 200
    /\ ~db[KeyOf(p)].exists

\* the number of list requests the listing of a folder of n entries takes
PagesOf(n) == n \div 1000 + 1

\* C6: the list requests of an operation ask for 1000 entries each, the k-th
\* at offset 1000 * (k - 1), one at a time; the listing goes on after a page
\* of 1000 entries and ends at the first shorter page, so that the listing of
\* an unchanging folder of n entries never sends more than n div 1000 + 1
\* requests and has sent exactly that many when it returns.
C6_Pagination ==
  \A p \in Procs :
    /\ \A k \in 1..Len(listLog[p]) :
         listLog[p][k] = [proc |-> p, call |-> "list", prefix |-> folderPrefix[p],
                          limit |-> 1000, offset |-> 1000 * (k - 1)]
    /\ pc[p] = "list" =>
         {r \in inflight : r.proc = p} = {listLog[p][Len(listLog[p])]}
    /\ pc[p] # "list" => {r \in inflight : r.proc = p /\ r.call = "list"} = {}
    /\ (listLog[p] # <<>> /\ stable[p]) =>
         /\ Len(listLog[p]) <= PagesOf(Cardinality(folder0[p]))
         /\ Listed(p) => Len(listLog[p]) = PagesOf(Cardinality(folder0[p]))

\* a folder of exactly 1000 entries has been listed with a second request at
\* offset 1000
C6_Witness ==
  \E p \in Procs :
    /\ Listed(p) /\ stable[p]
    /\ Cardinality(folder0[p]) = 1000
    /\ Len(listLog[p]) = 2 /\ listLog[p][2].offset = 1000

\* C7: the listing of a folder that did not change meanwhile returns the
\* path <prefix>/<name> of every entry of the folder, each once, and nothing else.
C7_CompleteListing ==
  \A p \in Procs :
    (Listed(p) /\ stable[p]) =>
      /\ PathsOf(paths[p]) = {PathOf(folderPrefix[p], NameOf(n)) : n \in folder0[p]}
      /\ Len(paths[p]) = Cardinality(folder0[p])

\* a listing of three pages has returned all 2001 paths
C7_Witness ==
  \E p \in Procs :
    /\ Listed(p) /\ stable[p]
    /\ Len(listLog[p]) = 3 /\ Len(paths[p]) = 2 * 1000 + 1

\* the provider has failed a list request of the slot's operation
ListFailed(p) == reply[p][1] = "list" /\ reply[p][2] \in ProviderMsgs

\* C8: when the provider fails a list request, whichever page it was for,
\* the operation throws the list error with the provider's message and
\* returns nothing, has sent no remove request and sends none, and, with no
\* other request at work, leaves the folder as it was.
C8_ListFailure ==
  \A p \in Procs :
    ListFailed(p) =>
      /\ result[p] = [state |-> "thrown",
                      error |-> [message |-> <<"Storage list failed: ", reply[p][2]>>]]
      /\ removeLog[p] = <<>> /\ RemovesInFlight(p) = {}
      /\ toDelete[p] = <<>>
      /\ pc[p] \notin {"list", "remove"}
      /\ run.slots = {p} => store[folderPrefix[p]] = folder0[p]

\* a list request for a later page has failed
C8_Witness ==
  \E p \in Procs :
    /\ ListFailed(p) /\ Len(listLog[p]) >= 2
    /\ store[folderPrefix[p]] = folder0[p] /\ Cardinality(folder0[p]) > 1000

\* the k-th batch of a delete list: its paths 1000 * (k - 1) + 1 .. 1000 * k
Batch(files, k) == SubSeq(files, 1000 * (k - 1) + 1, Min(1000 * k, Len(files)))

\* the number of batches of a delete list of n paths
BatchesOf(n) == (n + 999) \div 1000

\* the provider has failed a remove request of the slot's operation
RemoveFailed(p) == reply[p][1] = "remove" /\ reply[p][2] \in ProviderMsgs

\* the objects of the slot's folder that its first k batches name
InBatches(p, k) ==
  {n \in folder0[p] :
     \E j \in 1..k : PathOf(folderPrefix[p], NameOf(n)) \in PathsOf(removeLog[p][j])}

\* C9: the k-th remove request of an operation holds the k-th run of at most
\* 1000 consecutive paths of its delete list, and an operation that returns
\* has requested them all; when the provider fails batch k the operation
\* throws the delete error with the provider's message in place of a count,
\* no batch after k is ever requested, and, with no other request at work,
\* the objects of the batches before k are gone while all others remain.
C9_Batches ==
  \A p \in Procs :
    /\ \A k \in 1..Len(removeLog[p]) :
         /\ removeLog[p][k] = Batch(toDelete[p], k)
         /\ Len(removeLog[p][k]) \in 1..1000
    /\ Len(removeLog[p]) <= BatchesOf(Len(toDelete[p]))
    /\ (listLog[p] # <<>> /\ result[p].state = "returned") =>
         Len(removeLog[p]) = BatchesOf(Len(toDelete[p]))
    /\ RemoveFailed(p) =>
         /\ result[p] = [state |-> "thrown",
                         error |-> [message |-> <<"Storage delete failed: ", reply[p][2]>>]]
         /\ RemovesInFlight(p) = {}
         /\ pc[p] \notin {"list", "remove"}
         /\ Len(removeLog[p]) = i[p] \div 1000 + 1
         /\ run.slots = {p} =>
              store[folderPrefix[p]] = folder0[p] \ InBatches(p, Len(removeLog[p]) - 1)

\* the second of three batches has failed: the first 1000 objects are gone,
\* the other 1001 remain
C9_Witness ==
  \E p \in Procs :
    /\ RemoveFailed(p) /\ run.slots = {p}
    /\ Len(toDelete[p]) = 2 * 1000 + 1 /\ Len(removeLog[p]) = 2
    /\ Cardinality(store[folderPrefix[p]]) = 1000 + 1

\* C10: the delete batches of an operation go out one at a time: while the
\* operation is deleting, its one request in flight is the latest batch and
\* every batch before it has been answered with success; otherwise it has
\* no remove request in flight (the single-file delete of an image delete
\* request is no batch); and a further batch is sent only in the step
\* in which the provider answers the batch before it with success.
C10_SequentialBatches ==
  \A p \in Procs :
    /\ Cardinality(RemovesInFlight(p)) <= 1
    /\ pc[p] = "remove" =>
         /\ RemovesInFlight(p) =
              {[proc |-> p, call |-> "remove", paths |-> removeLog[p][Len(removeLog[p])]]}
         /\ i[p] = 1000 * (Len(removeLog[p]) - 1)
         /\ Len(removeLog[p]) > 1 => reply[p] = <<"remove", "ok">>
         /\ run.slots = {p} =>
              store[folderPrefix[p]] = folder0[p] \ InBatches(p, Len(removeLog[p]) - 1)
    /\ (pc[p] # "remove" /\ req[p].op # "deleteImage") => RemovesInFlight(p) = {}

\* the third batch is in flight after two batches answered with success
C10_Witness ==
  \E p \in Procs :
    /\ pc[p] = "remove" /\ Len(removeLog[p]) = 3
    /\ Cardinality(RemovesInFlight(p)) = 1
    /\ reply[p] = <<"remove", "ok">>

\* the slot's request has started a purge of the record's folder
Purging(p) == IsPurge(req[p].op) /\ listLog[p] # <<>>

\* C11: a purge puts every listed path in its delete list, whatever the
\* stored documents reference; once it returns it has requested the removal
\* of all of them and returns their number; for an empty listing it sends no
\* remove request and returns 0; with no other request at work the folder
\* is empty afterwards.
C11_PurgeRemovesAll ==
  \A p \in Procs :
    (Purging(p) /\ Listed(p)) =>
      /\ toDelete[p] = paths[p]
      /\ result[p].state = "returned" =>
           /\ Requested(p) = PathsOf(paths[p])
           /\ result[p].value = Len(paths[p])
           /\ paths[p] = <<>> => (removeLog[p] = <<>> /\ result[p].value = 0)
           /\ run.slots = {p} =>
                (store[folderPrefix[p]] = {} /\ result[p].value = Cardinality(folder0[p]))

\* a delete handler's purge has returned after removing an object that the
\* record's stored document references
C11_Witness ==
  \E p \in Procs :
    /\ Purging(p) /\ req[p].op = "delete" /\ result[p].state = "returned"
    /\ result[p].value > 0
    /\ db[KeyOf(p)].exists
    /\ \E n \in folder0[p] :
         /\ PathOf(folderPrefix[p], NameOf(n)) \in StoredRefs(p)
         /\ PathOf(folderPrefix[p], NameOf(n)) \in Requested(p)
         /\ n \notin store[folderPrefix[p]]

\* the value v with the src and alt of every image node's attrs replaced
RECURSIVE WithSrc(_, _, _)
WithSrc(v, src, alt) ==
  IF v.ty = "array"
    THEN Arr([k \in 1..Len(v.items) |-> WithSrc(v.items[k], src, alt)])
  ELSE IF v.ty = "object" /\ "type" \in DOMAIN v
    THEN [v EXCEPT
            !.attrs = IF v.type = Str(<<"image">>) /\ @.ty = "object"
                        THEN [@ EXCEPT !.src = src, !.alt = alt] ELSE @,
            !.content = WithSrc(@, src, alt)]
  ELSE v

\* src values: none, a number, and the paths of the folder's own objects
SrcValues(p) ==
  {Undefined, Num(1)}
  \cup {Str(PathOf(folderPrefix[p], NameOf(n))) : n \in 1..SmallMax}

\* C12: a sync decides by filePath alone: for every tree that differs from
\* the sync's tree only in the src and alt of its image nodes, the referenced
\* set is the same, and on the same listing so are the delete list and the
\* returned count.
C12_SrcIrrelevant ==
  \A p \in Procs :
    Syncing(p) =>
      \A src \in SrcValues(p), alt \in {Undefined, Str(<<"z">>)} :
        LET refs == collectImageFilePaths(WithSrc(req[p].content, src, alt)) IN
        /\ refs = referenced[p]
        /\ Listed(p) => toDelete[p] = ToDelete(req[p].op, paths[p], refs)
        /\ result[p].state = "returned" =>
             result[p].value =
               ReturnValue(req[p].op, paths[p], ToDelete(req[p].op, paths[p], refs))

\* the string src values of the image nodes of v
RECURSIVE SrcsOf(_)
SrcsOf(v) ==
  IF v.ty = "array" THEN UNION {SrcsOf(v.items[k]) : k \in 1..Len(v.items)}
  ELSE IF v.ty = "object" /\ "type" \in DOMAIN v
    THEN (IF v.type = Str(<<"image">>) /\ v.attrs.ty = "object" /\ isString(v.attrs.src)
            THEN {v.attrs.src.v} ELSE {})
         \cup SrcsOf(v.content)
  ELSE {}

\* a sync has deleted an object whose path is the src of an image node of
\* its tree, the node's filePath being no string
C12_Witness ==
  \E p \in Procs :
    /\ Syncing(p) /\ result[p].state = "returned"
    /\ \E n \in folder0[p] :
         /\ PathOf(folderPrefix[p], NameOf(n)) \in Requested(p)
         /\ PathOf(folderPrefix[p], NameOf(n)) \in SrcsOf(req[p].content)
         /\ n \notin store[folderPrefix[p]]

\* the nodes of a tree in depth-first pre-order, children in array order
RECURSIVE PreOrder(_)
PreOrder(v) ==
  LET kids == IF v.ty = "object" /\ "content" \in DOMAIN v /\ v.content.ty = "array"
                THEN v.content.items ELSE <<>>
      F[k \in 0..Len(kids)] == IF k = 0 THEN <<>> ELSE F[k - 1] \o PreOrder(kids[k])
  IN <<v>> \o F[Len(kids)]

\* v is an object whose type is `name`
IsNodeOf(v, name) == v.ty = "object" /\ "type" \in DOMAIN v /\ v.type = Str(<<name>>)

\* the nodes of a root, none when the root is no object
NodesOf(root) == IF root.ty \in {"object", "array"} THEN PreOrder(root) ELSE <<>>

\* the attrs of an image node has a string filePath that is not blank
HasPath(v) ==
  /\ IsNodeOf(v, "image")
  /\ v.attrs.ty = "object" /\ v.attrs.filePath.ty = "string"
  /\ \E k \in 1..Len(v.attrs.filePath.v) : v.attrs.filePath.v[k] # " "

\* the slot's request is a direct call of walker fn that has returned
Walked(p, fn) == req[p].op = fn /\ result[p].state = "returned"

\* C13: collectImageFilePaths returns the set of the filePath values, as they
\* stand, of all image nodes anywhere in the tree whose filePath is a string
\* with a character other than whitespace; equal paths are one element, and
\* image nodes without attrs, with a filePath that is no string or with a
\* blank filePath add nothing.
C13_CollectsAllPaths ==
  \A p \in Procs :
    Walked(p, "collectImageFilePaths") =>
      LET nodes == NodesOf(req[p].content) IN
      result[p].value.items =
        {nodes[k].attrs.filePath.v : k \in {j \in 1..Len(nodes) : HasPath(nodes[j])}}

\* two image nodes, one of them below another image node, carry the same path:
\* the set returned holds that one path and the path of the outer node
C13_Witness ==
  \E p \in Procs :
    /\ Walked(p, "collectImageFilePaths")
    /\ LET nodes == NodesOf(req[p].content) IN
       Cardinality({j \in 1..Len(nodes) : HasPath(nodes[j])}) = 3
    /\ Cardinality(result[p].value.items) = 2

\* the value is null, undefined, a number, a string or a boolean
IsPrimitive(v) == v.ty \in {"null", "undefined", "number", "string", "boolean"}

\* C14: called with a root that is no object, extractPlainTextFromTiptap
\* returns the empty string, findFirstImageAttrs returns null and
\* collectImageFilePaths returns the empty set, each by a normal return; a
\* sync with such a root has an empty referenced set, so that every listed
\* path is in its delete list.
C14_PrimitiveRoots ==
  \A p \in Procs :
    /\ (req[p].op = "extractPlainTextFromTiptap" /\ IsPrimitive(req[p].content)) =>
         result[p] = [state |-> "returned", value |-> Str(<<>>)]
    /\ (req[p].op = "findFirstImageAttrs" /\ IsPrimitive(req[p].content)) =>
         result[p] = [state |-> "returned", value |-> Null]
    /\ (req[p].op = "collectImageFilePaths" /\ IsPrimitive(req[p].content)) =>
         result[p] = [state |-> "returned", value |-> [ty |-> "set", items |-> {}]]
    /\ (req[p].op = "sync" /\ IsPrimitive(req[p].content)) =>
         /\ referenced[p] = {}
         /\ Listed(p) => toDelete[p] = paths[p]
         /\ result[p].state = "returned" => result[p].value = [deleted |-> Len(paths[p])]

\* the text walker has returned from a call with a non-empty string as root
C14_Witness ==
  \E p \in Procs :
    /\ req[p].op = "extractPlainTextFromTiptap"
    /\ req[p].content.ty = "string" /\ req[p].content.v # <<>>
    /\ result[p].state = "returned"

\* src, filePath and alt of an attrs value, each undefined unless a string
Projected(attrs) ==
  LET field(f) == IF attrs.ty = "object" /\ attrs[f].ty = "string" THEN attrs[f]
                  ELSE Undefined
  IN [ty |-> "object", src |-> field("src"), filePath |-> field("filePath"),
      alt |-> field("alt")]

\* the least element of a non-empty set of numbers
Least(S) == CHOOSE j \in S : \A k \in S : j <= k

\* the positions of the image nodes in the pre-order node list
ImageNodes(nodes) == {j \in 1..Len(nodes) : IsNodeOf(nodes[j], "image")}

\* the positions of the image nodes whose attrs is an object
ImageNodesWithAttrs(nodes) ==
  {j \in ImageNodes(nodes) : nodes[j].attrs.ty \in {"object", "array"}}

\* C15 as stated: findFirstImageAttrs returns the projected attrs of the
\* first node in pre-order whose type is image, and null when the tree has
\* no image node.
C15_FirstImageNode ==
  \A p \in Procs :
    Walked(p, "findFirstImageAttrs") =>
      LET nodes == NodesOf(req[p].content) IN
      result[p].value =
        IF ImageNodes(nodes) = {} THEN Null
        ELSE Projected(nodes[Least(ImageNodes(nodes))].attrs)

\* C15 amended: findFirstImageAttrs returns the projected attrs of the first
\* node in pre-order whose type is image and whose attrs is an object, image
\* nodes without such attrs being passed over; it returns null when the tree
\* has no such node; the nodes after that first one do not enter the result.
C15_FirstImageNodeWithAttrs ==
  \A p \in Procs :
    Walked(p, "findFirstImageAttrs") =>
      LET nodes == NodesOf(req[p].content) IN
      result[p].value =
        IF ImageNodesWithAttrs(nodes) = {} THEN Null
        ELSE Projected(nodes[Least(ImageNodesWithAttrs(nodes))].attrs)

\* the first image node of the tree has no attrs object and a later one has:
\* the later one's attrs are returned
C15_Witness ==
  \E p \in Procs :
    /\ Walked(p, "findFirstImageAttrs")
    /\ LET nodes == NodesOf(req[p].content) IN
       /\ ImageNodesWithAttrs(nodes) # {}
       /\ Least(ImageNodes(nodes)) < Least(ImageNodesWithAttrs(nodes))
       /\ Cardinality(ImageNodesWithAttrs(nodes)) >= 2
    /\ result[p].value # Null /\ result[p].value.src.ty = "string"

\* what one node adds to the text: the text of a text node when it is a
\* string, a newline for a hard break
TextOf(v) ==
  IF IsNodeOf(v, "text") /\ v.text.ty = "string" THEN v.text.v
  ELSE IF IsNodeOf(v, "hardBreak") THEN <<"\n">>
  ELSE <<>>

\* the texts of a list of nodes, joined in order with nothing between them
Joined(nodes) ==
  LET F[k \in 0..Len(nodes)] == IF k = 0 THEN <<>> ELSE F[k - 1] \o TextOf(nodes[k])
  IN F[Len(nodes)]

\* C16: extractPlainTextFromTiptap returns the texts of the text nodes and a
\* newline for each hard break, joined without separator in depth-first
\* pre-order (a node before its children, children in array order); a tree
\* without such nodes gives the empty string.
C16_PlainText ==
  \A p \in Procs :
    Walked(p, "extractPlainTextFromTiptap") =>
      result[p].value = Str(Joined(NodesOf(req[p].content)))

\* a text node with a hard break below it, followed by a text node: the text
\* of the parent, the newline, the text of the sibling
C16_Witness ==
  \E p \in Procs :
    /\ Walked(p, "extractPlainTextFromTiptap")
    /\ result[p].value = Str(<<"t", "\n", "a">>)

\* the folder name the store keeps the images of a content kind under
FolderName(kind) ==
  CASE kind = "newsletter" -> "newsletters"
    [] kind = "blog" -> "blogs"
    [] kind = "caseStudy" -> "case-studies"

\* C17: a sync or purge for (kind, id) works under the prefix
\* <folderName>/<id>, folderName being newsletters, blogs or case-studies,
\* and each of its list requests names exactly that prefix.
C17_FolderPrefix ==
  \A p \in Procs :
    (Syncing(p) \/ Purging(p)) =>
      /\ folderPrefix[p] = <<FolderName(req[p].kind), "/", req[p].id>>
      /\ \A k \in 1..Len(listLog[p]) :
           listLog[p][k].prefix = <<FolderName(req[p].kind), "/", req[p].id>>
      /\ \A r \in inflight :
           (r.proc = p /\ r.call = "list") =>
             r.prefix = <<FolderName(req[p].kind), "/", req[p].id>>

\* a purge of a case study has listed three pages under case-studies/r1
C17_Witness ==
  \E p \in Procs :
    /\ Purging(p) /\ req[p].kind = "caseStudy" /\ Listed(p)
    /\ Len(listLog[p]) = 3
    /\ \A k \in 1..3 : listLog[p][k].prefix = <<"case-studies", "/", "r1">>

\* two update requests for one record are both in progress, each with its
\* database write done and its sync returned, and no other request has run
BothUpdated(p, q) ==
  /\ p # q /\ nreq = 2
  /\ req[p].op = "update" /\ req[q].op = "update" /\ KeyOf(p) = KeyOf(q)
  /\ pc[p] = "respond" /\ pc[q] = "respond"
  /\ Syncing(p) /\ Syncing(q)
  /\ result[p].state = "returned" /\ result[q].state = "returned"

\* the objects the folder held before any request, and still held when each
\* of the two syncs began its listing, that the record's stored document
\* references
StoredObjects(p, q) ==
  {n \in (1..SmallMax) \cap folder0[p] \cap folder0[q] :
     PathOf(folderPrefix[p], NameOf(n)) \in StoredRefs(p)}

\* C18: when two concurrent update requests for one record have both
\* completed with successful syncs, every object that was in the store before
\* the two requests and that the document finally stored in the record
\* references is still in the store: no sync has reconciled the store against
\* a document that the later database write had already replaced.
C18_ConcurrentUpdatesKeepStoredRefs ==
  \A p, q \in Procs :
    BothUpdated(p, q) => StoredObjects(p, q) \subseteq store[folderPrefix[p]]

\* C19: every case study whose status is PUBLISHED has a non-empty trimmed
\* title and a document whose extracted plain text is non-empty, in every
\* state the createCaseStudyDraft, createCaseStudy and updateCaseStudy
\* requests can reach, one after the other or interleaved.
C19_PublishedHasTitleAndText ==
  \A id \in Ids :
    LET record == db[<<"caseStudy", id>>] IN
    (record.exists /\ record.status = "PUBLISHED") =>
      /\ trim(record.title) # <<>>
      /\ trim(extractPlainTextFromTiptap(record.content)) # <<>>

\* `path` names an object inside the folder `prefix`
InFolder(path, prefix) ==
  /\ Len(path) > Len(prefix) + 1
  /\ \A j \in 1..Len(prefix) : path[j] = prefix[j]
  /\ path[Len(prefix) + 1] = "/"

\* the remove requests the slot's operation has sent so far: their path lists
RemoveLists(p) ==
  {removeLog[p][k] : k \in 1..Len(removeLog[p])} \cup {r.paths : r \in RemovesInFlight(p)}

\* the paths of the objects that leave folder f in a step
Leaving(f) == {PathOf(f, NameOf(n)) : n \in store[f] \ store'[f]}

\* C20: a sync or purge for (kind, id) removes only inside its own folder:
\* every path of each of its remove requests starts with <folderName>/<id>/
\* and was returned by its own listing; an object leaves the store only from
\* the folder of an operation that is waiting for a remove request which names
\* it (or by an image-delete request for that very object), so the folders of
\* other records and other kinds stay as they are, and an object enters the
\* store only by an upload.
C20_OnlyOwnFolder ==
  /\ [](\A p \in Procs :
          (Syncing(p) \/ Purging(p)) =>
            \A files \in RemoveLists(p) :
              /\ \A k \in 1..Len(files) :
                   InFolder(files[k], <<FolderName(req[p].kind), "/", req[p].id>>)
              /\ PathsOf(files) \subseteq PathsOf(paths[p]))
  /\ [][\A f \in {g \in Prefixes : store'[g] # store[g]} :
          /\ store'[f] \ store[f] # {} =>
               \E p \in Procs : pc[p] = "upload" /\ req[p].op = "upload"
          /\ store[f] \ store'[f] # {} =>
               \E p \in Procs :
                 \/ /\ pc[p] = "deleteFile" /\ req[p].op = "deleteImage"
                    /\ Leaving(f) = {req[p].filePath.v}
                 \/ /\ (Syncing(p) \/ Purging(p)) /\ pc[p] = "remove"
                    /\ f = <<FolderName(req[p].kind), "/", req[p].id>>
                    /\ Leaving(f) \subseteq PathsOf(paths[p])
                    /\ \E r \in RemovesInFlight(p) :
                         Leaving(f) \subseteq PathsOf(r.paths)]_vars

\* a purge has emptied a folder of more than a thousand objects with two
\* remove requests; the folders of the same id under the other kinds are whole
C20_Witness ==
  \E p \in Procs :
    /\ Purging(p) /\ result[p].state = "returned"
    /\ Len(removeLog[p]) = 2
    /\ store[folderPrefix[p]] = {}
    /\ \A k \in Kinds \ {req[p].kind} :
         store[getFolderPrefix(k, req[p].id)] = 1..SmallMax

\* an image upload (slot q) and a delete (slot p) for one record are both
\* about to send their response; the delete's purge has returned and the
\* record is gone
UploadAndDeleteDone(p, q) ==
  /\ p # q
  /\ req[p].op = "delete" /\ req[q].op = "upload" /\ KeyOf(p) = KeyOf(q)
  /\ pc[p] = "respond" /\ pc[q] = "respond"
  /\ Purging(p) /\ result[p].state = "returned"
  /\ ~db[KeyOf(p)].exists

\* C21: in any interleaving of an image upload and a delete for one record
\* in which the purge succeeds, once both requests have completed and the
\* record is gone, no object remains under the record's folder.
C21_NoObjectAfterDelete ==
  \A p, q \in Procs :
    UploadAndDeleteDone(p, q) => store[folderPrefix[p]] = {}

\* the requests the handlers guard by author or admin
GuardedOps == {"update", "delete", "upload", "deleteImage"}

\* the slot serves a guarded request for an existing record, made by a user
\* who is neither the record's author nor an admin
Outsider(p) ==
  /\ req[p].op \in GuardedOps /\ req[p].user # NoUser
  /\ db[KeyOf(p)].exists
  /\ db[KeyOf(p)].authorId # req[p].user.userId
  /\ req[p].user.role # "admin"

\* the slot's request has written nothing and asked nothing of the store
NoEffect(p) ==
  /\ ~persisted[p]
  /\ listLog[p] = <<>> /\ removeLog[p] = <<>>
  /\ \A r \in inflight : r.proc # p

\* the handler is past its lookup of the record
LookedUp(p) == pc[p] \notin {"idle", "findUnique"}

InvalidUpload(p) == req[p].op = "upload" /\ ~req[p].file

ImageDelete(p) == req[p].op = "deleteImage" /\ req[p].filePath # Unread

\* value is a string that starts with `<folderName>/<id>/` of the slot's record
OwnPath(p, value) ==
  /\ value.ty = "string"
  /\ Len(value.v) >= 4
  /\ value.v[1] = FolderName(req[p].kind) /\ value.v[2] = "/"
  /\ value.v[3] = req[p].id /\ value.v[4] = "/"

\* C23: an image-delete handler sends a storage delete only for a filePath
\* that is a string starting with the prefix of the addressed record
\* (blogs/<id>/, newsletters/<id>/, case-studies/<id>/), and the request names
\* that filePath alone; a missing or non-string filePath, or one outside the
\* prefix, is answered 400 with no storage request.
C23_DeleteOnlyOwnPath ==
  \A p \in Procs :
    /\ (req[p].op = "deleteImage" /\ pc[p] = "deleteFile") =>
         /\ ImageDelete(p) /\ OwnPath(p, req[p].filePath)
         /\ {r \in inflight : r.proc = p} =
              {[proc |-> p, call |-> "remove", paths |-> <<req[p].filePath.v>>]}
    /\ (req[p].op = "deleteImage" /\ pc[p] # "deleteFile") =>
         \A r \in inflight : r.proc # p
    /\ (ImageDelete(p) /\ ~OwnPath(p, req[p].filePath)) =>
         pc[p] = "respond" /\ res[p].status = 400

\* an image delete for a path under another kind's folder of the same id was
\* answered 400 and that object is still there
C23_Witness ==
  \E p \in Procs :
    /\ ImageDelete(p) /\ req[p].filePath.ty = "string"
    /\ \E k \in Kinds \ {req[p].kind} :
         /\ req[p].filePath.v = PathOf(getFolderPrefix(k, req[p].id), NameOf(1))
         /\ 1 \in store[getFolderPrefix(k, req[p].id)]
    /\ pc[p] = "respond" /\ res[p].status = 400

\* the record is as a draft endpoint created it: no title, the empty
\* document, and never published (case study) or saved with content
IsDraft(record) ==
  /\ record.exists
  /\ record.title = <<>> /\ record.content = EmptyDoc
  /\ record.status # "PUBLISHED"

\* C24: no public read endpoint returns a draft: for each of the three kinds
\* a record created by the draft endpoint and not yet published or saved with
\* content is absent from the public list and is answered 404 by the public
\* get by id.
C24_NoDraftInPublicReads ==
  \A p \in Procs :
    /\ (req[p].op = "getAll" /\ pc[p] = "respond") =>
         \A item \in res[p].data : ~IsDraft(item.record)
    /\ (req[p].op = "getById" /\ pc[p] = "respond" /\ IsDraft(rec[p])) =>
         res[p].status = 404

\* the request is an updateCaseStudy whose body has no content field
UpdateWithoutContent(r) ==
  r.op = "update" /\ r.kind = "caseStudy" /\ r.content = Undefined

\* C25: updateCaseStudy runs the image sync only when the request carries a
\* content field: an update without content sends no list and no remove
\* request and no step of it changes the store, and when content is present
\* the tree given to the sync is the one this request wrote to the record.
C25_SyncOnlyWithContent ==
  /\ [](\A p \in Procs :
          /\ (UpdateWithoutContent(req[p]) /\ persisted[p]) =>
               /\ pc[p] = "respond" /\ res[p].status = 200
               /\ listLog[p] = <<>> /\ removeLog[p] = <<>>
               /\ \A r \in inflight : r.proc # p
          /\ (req[p].op = "update" /\ req[p].kind = "caseStudy" /\ Syncing(p)) =>
               /\ persisted[p] /\ req[p].content # Undefined
               /\ rec[p].content = req[p].content
               /\ referenced[p] = collectImageFilePaths(rec[p].content)
               /\ listLog[p][1].prefix = getFolderPrefix("caseStudy", req[p].id))
  /\ [][\A p \in Procs :
          (UpdateWithoutContent(req[p]) /\ pc'[p] # pc[p]) =>
            store' = store /\ inflight' = inflight]_vars

\* a case study was set back to DRAFT by an update without content; its
\* folder holds the objects it held
C25_Witness ==
  \E p \in Procs :
    /\ UpdateWithoutContent(req[p]) /\ persisted[p]
    /\ req[p].status = Str(<<"DRAFT">>)
    /\ pc[p] = "respond" /\ res[p].status = 200
    /\ run.slots = {p} /\ nreq = 1
    /\ store[getFolderPrefix("caseStudy", req[p].id)] = 1..SmallMax

\* a user of the table, other than the one the slot's request created,
\* holds the email or the username of the slot's register request
Taken(p) ==
  \E u \in Rows :
    /\ u.email = req[p].email \/ u.username = req[p].username
    /\ ~(persisted[p] /\ rec[p] = u)

\* C26: register never creates a user whose email or username belongs to an
\* existing user, in any sequence or interleaving of register requests, and
\* a request whose email or username is taken is answered 409 and creates no
\* user.
C26_RegisterUnique ==
  /\ \A u, v \in Rows : (u.email = v.email \/ u.username = v.username) => u = v
  /\ \A p \in Procs :
       (req[p].op = "register" /\ req[p].valid /\ pc[p] = "respond" /\ Taken(p)) =>
         res[p].status = 409 /\ ~persisted[p]

\* the users that registered after the first user
LaterUsers == {u \in Rows : u.id # "u1"}

\* C27: register gives the admin role to the first user that registers and
\* not to users that register afterwards, so a user who registered later and
\* is not the author of a record is refused (403) when updating or deleting
\* that record.
C27_OnlyFirstUserIsAdmin ==
  /\ \A u \in Rows : u.role = "admin" <=> u.id = "u1"
  /\ \A p \in Procs :
       (/\ req[p].op \in {"update", "delete"} /\ LookedUp(p) /\ run.auth
        /\ req[p].user # NoUser /\ req[p].user.userId \in {u.id : u \in LaterUsers}
        /\ db[KeyOf(p)].exists /\ db[KeyOf(p)].authorId # req[p].user.userId) =>
         pc[p] = "respond" /\ res[p].status = 403
====
